---- MODULE Spec2Model ----
(***************************************************************************)
(* A model of the conversational session engine of nlpSQLChat:            *)
(*   server_api.py                      the request handlers (ask, reset, *)
(*                                      conversation_state) and the       *)
(*                                      session registry                  *)
(*   src/conversation/context_manager.py  ConversationMemory              *)
(*   src/kernel/service.py              Kernel.message (LLM call, retry)  *)
(*   src/plugins/database_plugin.py     DatabasePlugin (size guard,       *)
(*                                      export)                           *)
(* Texts are TLA+ strings; the Python string and regex operations the     *)
(* code uses are written out as operators over them.                      *)
(***************************************************************************)
EXTENDS Integers, Sequences, FiniteSets, TLC

(***************************************************************************)
(* Python string primitives                                                *)
(***************************************************************************)
Char(s, i) == SubSeq(s, i, i)

\* s[n:]
Drop(s, n) == IF n >= Len(s) THEN "" ELSE SubSeq(s, n + 1, Len(s))

\* s[:n]
Take(s, n) == IF n >= Len(s) THEN s ELSE SubSeq(s, 1, n)

\* the text p stands in s at (1-based) position i
MatchAt(s, i, p) == i + Len(p) - 1 <= Len(s) /\ SubSeq(s, i, i + Len(p) - 1) = p

\* s.startswith(p)
StartsWith(s, p) == MatchAt(s, 1, p)

\* p in s
Contains(s, p) == \E i \in 1..(Len(s) - Len(p) + 1) : MatchAt(s, i, p)

\* s.rfind(p), as a 1-based position; 0 when p does not occur
RFind(s, p) ==
    LET hits == {i \in 1..(Len(s) - Len(p) + 1) : MatchAt(s, i, p)}
    IN  IF hits = {} THEN 0 ELSE CHOOSE i \in hits : \A j \in hits : j <= i

UpperLetters == {"A", "B", "C", "D", "E", "F", "G", "H", "I", "J", "K", "L", "M",
                 "N", "O", "P", "Q", "R", "S", "T", "U", "V", "W", "X", "Y", "Z"}
LowerLetters == {"a", "b", "c", "d", "e", "f", "g", "h", "i", "j", "k", "l", "m",
                 "n", "o", "p", "q", "r", "s", "t", "u", "v", "w", "x", "y", "z"}
Letters == UpperLetters \cup LowerLetters
Digits == {"0", "1", "2", "3", "4", "5", "6", "7", "8", "9"}
\* the regex class \w
WordChars == Letters \cup Digits \cup {"_"}
\* the regex class \s, and what str.strip() and str.split() remove
Whitespace == {" ", "\t", "\n", "\r"}

UpperSeq == <<"A", "B", "C", "D", "E", "F", "G", "H", "I", "J", "K", "L", "M",
              "N", "O", "P", "Q", "R", "S", "T", "U", "V", "W", "X", "Y", "Z">>
LowerSeq == <<"a", "b", "c", "d", "e", "f", "g", "h", "i", "j", "k", "l", "m",
              "n", "o", "p", "q", "r", "s", "t", "u", "v", "w", "x", "y", "z">>

LowerChar(c) ==
    IF c \in UpperLetters THEN LowerSeq[CHOOSE i \in 1..26 : UpperSeq[i] = c] ELSE c

UpperChar(c) ==
    IF c \in LowerLetters THEN UpperSeq[CHOOSE i \in 1..26 : LowerSeq[i] = c] ELSE c

\* s.lower()
RECURSIVE Lower(_)
Lower(s) ==
    IF Len(s) <= 1 THEN LowerChar(s)
    ELSE Lower(Take(s, Len(s) \div 2)) \o Lower(Drop(s, Len(s) \div 2))

\* s.upper()
RECURSIVE Upper(_)
Upper(s) ==
    IF Len(s) <= 1 THEN UpperChar(s)
    ELSE Upper(Take(s, Len(s) \div 2)) \o Upper(Drop(s, Len(s) \div 2))

\* the number of consecutive characters of s, from position i on, that are in cls
SpanIn(s, i, cls) ==
    CHOOSE n \in 0..(Len(s) + 1) :
        /\ \A k \in 0..(n - 1) : i + k <= Len(s) /\ Char(s, i + k) \in cls
        /\ (i + n > Len(s) \/ Char(s, i + n) \notin cls)

\* the number of trailing characters of s that are in cls
SpanBack(s, cls) ==
    CHOOSE n \in 0..Len(s) :
        /\ \A k \in 0..(n - 1) : Char(s, Len(s) - k) \in cls
        /\ (n = Len(s) \/ Char(s, Len(s) - n) \notin cls)

\* s.strip()
Strip(s) ==
    LET l == SpanIn(s, 1, Whitespace)
        t == Drop(s, l)
    IN  Take(t, Len(t) - SpanBack(t, Whitespace))

\* s.split(): the whitespace-separated words of s
RECURSIVE Split(_)
Split(s) ==
    LET t == Drop(s, SpanIn(s, 1, Whitespace))
        n == SpanIn(t, 1, {Char(t, k) : k \in 1..Len(t)} \ Whitespace)
    IN  IF t = "" THEN <<>> ELSE <<Take(t, n)>> \o Split(Drop(t, n))

\* s.replace(old, new), old not empty
RECURSIVE Replace(_, _, _)
Replace(s, old, new) ==
    LET hits == {i \in 1..(Len(s) - Len(old) + 1) : MatchAt(s, i, old)}
        first == CHOOSE i \in hits : \A j \in hits : i <= j
    IN  IF hits = {} THEN s
        ELSE Take(s, first - 1) \o new \o Replace(Drop(s, first + Len(old) - 1), old, new)

\* int(s) for a text of decimal digits
DigitValue(c) == CHOOSE d \in 0..9 : ToString(d) = c

RECURSIVE ParseInt(_)
ParseInt(s) ==
    IF s = "" THEN 0
    ELSE 10 * ParseInt(Take(s, Len(s) - 1)) + DigitValue(Char(s, Len(s)))

\* ', '.join(xs)
RECURSIVE Join(_, _)
Join(sep, xs) ==
    IF xs = <<>> THEN ""
    ELSE IF Len(xs) = 1 THEN xs[1]
    ELSE xs[1] \o sep \o Join(sep, Tail(xs))

\* the elements of a sequence, as a set (set.update(matches))
Range(xs) == {xs[i] : i \in 1..Len(xs)}

(***************************************************************************)
(* Optional values: None is the empty tuple, a present value v is <<v>>.   *)
(***************************************************************************)
None == <<>>
Some(v) == <<v>>

(***************************************************************************)
(* The regular expressions of context_manager.py, each as re.findall       *)
(* (flags=re.IGNORECASE) computes it: leftmost match first, the scan       *)
(* resumes where a match ends, and a pattern with groups yields the groups.*)
(***************************************************************************)
\* the text p (lower case) stands in s at position i, whatever the case
MatchAtCI(s, i, p) ==
    i + Len(p) - 1 <= Len(s) /\ Lower(SubSeq(s, i, i + Len(p) - 1)) = p

\* the least position from i on where a match begins (lens[j] > 0); 0 if none
NextMatch(lens, i) ==
    LET hits == {j \in i..Len(lens) : lens[j] > 0}
    IN  IF hits = {} THEN 0 ELSE CHOOSE j \in hits : \A k \in hits : j <= k

\* where the matches begin that re.findall takes from position i on, lens[j] being
\* the length of the match that begins at j (0: none begins there)
RECURSIVE MatchStarts(_, _)
MatchStartsFrom(lens, j) ==
    IF j = 0 THEN <<>> ELSE <<j>> \o MatchStarts(lens, j + lens[j])

MatchStarts(lens, i) == MatchStartsFrom(lens, NextMatch(lens, i))

\* the texts of the matches that begin at starts
MatchTexts(s, lens, starts) ==
    [m \in 1..Len(starts) |-> SubSeq(s, starts[m], starts[m] + lens[starts[m]] - 1)]

\* the matches of the pattern in s, leftmost first, none overlapping another
Matches(s, lens) == MatchTexts(s, lens, MatchStarts(lens, 1))

\* [Group(m) for m in matches]
Groups(matches, Group(_)) == [k \in 1..Len(matches) |-> Group(matches[k])]

\* the group (\w+) that ends a match
LastWord(m) == Drop(m, Len(m) - SpanBack(m, WordChars))

\* r'Customer[A-Z]\w*' at position j: the length of the match, 0 if none
CustomerTokenAt(s, j) ==
    IF MatchAtCI(s, j, "customer") /\ j + 8 <= Len(s) /\ Char(s, j + 8) \in Letters
    THEN 9 + SpanIn(s, j + 9, WordChars)
    ELSE 0

FindCustomerToken(s) == Matches(s, [k \in 1..Len(s) |-> CustomerTokenAt(s, k)])

\* kw + r'\s+(\w+)' at position j ('customer', 'buyer', 'part', 'filter'), after ws
\* characters of whitespace: the length of the match, 0 if none
KeywordWordAfter(s, kw, j, ws) ==
    IF MatchAtCI(s, j, kw) /\ ws >= 1 /\ SpanIn(s, j + Len(kw) + ws, WordChars) >= 1
    THEN Len(kw) + ws + SpanIn(s, j + Len(kw) + ws, WordChars)
    ELSE 0

KeywordWordAt(s, kw, j) == KeywordWordAfter(s, kw, j, SpanIn(s, j + Len(kw), Whitespace))

\* the group of each match
FindKeywordWord(s, kw) ==
    Groups(Matches(s, [k \in 1..Len(s) |-> KeywordWordAt(s, kw, k)]), LastWord)

\* a word boundary \b in front of position p, the character before it a word character
WordEndsBefore(s, p) == p > Len(s) \/ Char(s, p) \notin WordChars

\* r'\b[A-Z]{2,4}\d{3,5}[A-Z]?\b' at position j, nl letters and then nd digits
\* standing there: the length of the match, 0 if none
PartTokenOf(s, j, nl, nd) ==
    IF /\ (j = 1 \/ Char(s, j - 1) \notin WordChars)
       /\ nl \in 2..4
       /\ nd \in 3..5
    THEN IF WordEndsBefore(s, j + nl + nd) THEN nl + nd
         ELSE IF Char(s, j + nl + nd) \in Letters /\ WordEndsBefore(s, j + nl + nd + 1)
              THEN nl + nd + 1
              ELSE 0
    ELSE 0

PartTokenLetters(s, j, nl) == PartTokenOf(s, j, nl, SpanIn(s, j + nl, Digits))

PartTokenAt(s, j) == PartTokenLetters(s, j, SpanIn(s, j, Letters))

FindPartToken(s) == Matches(s, [k \in 1..Len(s) |-> PartTokenAt(s, k)])

\* the first of the alternatives alts (lower case) standing at position i; "" if none
FirstAlternative(s, i, alts) ==
    LET hits == {k \in 1..Len(alts) : MatchAtCI(s, i, alts[k])}
    IN  IF hits = {} THEN ""
        ELSE alts[CHOOSE k \in hits : \A j \in hits : k <= j]

Periods == <<"month", "week", "year", "quarter">>
MonthNames == <<"january", "february", "march", "april", "may", "june", "july",
                "august", "september", "october", "november", "december">>

\* kw + r'\s+(month|week|year|quarter)' at position j ('last', 'this'), after ws
\* characters of whitespace: the length of the match, 0 if none
RelativeDateAfter(s, kw, j, ws, period) ==
    IF MatchAtCI(s, j, kw) /\ ws >= 1 /\ period # "" THEN Len(kw) + ws + Len(period) ELSE 0

RelativeDateSpace(s, kw, j, ws) ==
    RelativeDateAfter(s, kw, j, ws, FirstAlternative(s, j + Len(kw) + ws, Periods))

RelativeDateAt(s, kw, j) == RelativeDateSpace(s, kw, j, SpanIn(s, j + Len(kw), Whitespace))

\* the one group of a match, the period
PeriodGroup(m) == <<LastWord(m)>>

FindRelativeDate(s, kw) ==
    Groups(Matches(s, [k \in 1..Len(s) |-> RelativeDateAt(s, kw, k)]), PeriodGroup)

\* r'(\d{4})-(\d{1,2})' at position j, nm digits standing after the hyphen: the
\* length of the match, 0 if none
YearMonthOf(s, j, nm) ==
    IF SpanIn(s, j, Digits) >= 4 /\ MatchAt(s, j + 4, "-") /\ nm >= 1
    THEN 5 + (IF nm >= 2 THEN 2 ELSE nm) ELSE 0

YearMonthAt(s, j) == YearMonthOf(s, j, SpanIn(s, j + 5, Digits))

\* the two groups of a match
YearMonthGroups(m) == <<Take(m, 4), Drop(m, 5)>>

FindYearMonth(s) ==
    Groups(Matches(s, [k \in 1..Len(s) |-> YearMonthAt(s, k)]), YearMonthGroups)

\* r'(January|...|December)\s+(\d{4})' at position j, the month name standing there
\* n characters long and ws characters of whitespace after it: the length of the match
MonthYearOf(s, j, n, ws) ==
    IF n > 0 /\ ws >= 1 /\ SpanIn(s, j + n + ws, Digits) >= 4
    THEN n + ws + 4 ELSE 0

MonthYearName(s, j, n) == MonthYearOf(s, j, n, SpanIn(s, j + n, Whitespace))

MonthYearAt(s, j) == MonthYearName(s, j, Len(FirstAlternative(s, j, MonthNames)))

\* the two groups of a match
MonthYearGroups(m) ==
    <<Take(m, Len(m) - 4 - SpanBack(Take(m, Len(m) - 4), Whitespace)),
      Drop(m, Len(m) - 4)>>

FindMonthYear(s) ==
    Groups(Matches(s, [k \in 1..Len(s) |-> MonthYearAt(s, k)]), MonthYearGroups)

\* a literal p with an optional literal suffix opt (r'ebayWT(?:_NF)?') at position
\* j: the length of the match, 0 if none
LiteralAt(s, p, opt, j) ==
    IF MatchAtCI(s, j, p)
    THEN IF opt # "" /\ MatchAtCI(s, j + Len(p), opt) THEN Len(p) + Len(opt) ELSE Len(p)
    ELSE 0

FindLiteral(s, p, opt) == Matches(s, [k \in 1..Len(s) |-> LiteralAt(s, p, opt, k)])

\* str(m) of one findall result: the text itself, or Python's repr of a tuple of two
StrOfMatch(m) ==
    IF Len(m) = 1 THEN m[1] ELSE "('" \o m[1] \o "', '" \o m[2] \o "')"

(***************************************************************************)
(* ConversationMemory                                                      *)
(***************************************************************************)
\* ConversationMemory.__init__
NewConversationMemory ==
    [current_context      |-> None,
     conversation_history |-> <<>>,
     chat_history         |-> <<>>,
     entities |-> [customers       |-> {},
                   parts           |-> {},
                   tables          |-> {},
                   date_ranges     |-> <<>>,
                   last_customer   |-> None,
                   last_part       |-> None,
                   last_date_range |-> None]]

\* the match lists of the patterns of one kind, in the order the loop tries them
customer_patterns(query) ==
    <<FindCustomerToken(query),
      FindKeywordWord(query, "customer"),
      FindKeywordWord(query, "buyer")>>

part_patterns(query) ==
    <<FindPartToken(query),
      FindKeywordWord(query, "part"),
      FindKeywordWord(query, "filter")>>

date_patterns(query) ==
    <<FindRelativeDate(query, "last"),
      FindRelativeDate(query, "this"),
      FindYearMonth(query),
      FindMonthYear(query)>>

table_patterns(query) ==
    <<FindLiteral(query, "ebaywt", "_nf"),
      FindLiteral(query, "ebaynf_suppliermatch", "")>>

\* what "for pattern in patterns: if matches: entities[kind] = matches" leaves:
\* the matches of the last pattern that matched (<<>>: the key is never set)
LastMatching(lists) ==
    LET hit == {k \in 1..Len(lists) : lists[k] # <<>>}
    IN  IF hit = {} THEN <<>>
        ELSE lists[CHOOSE k \in hit : \A j \in hit : j <= k]

\* a loop that would add to the set what it leaves in entities[kind] only
LastMatches(lists) == Range(LastMatching(lists))

\* what the loop's set.update(matches) calls add: the matches of every pattern
AllMatches(lists) == UNION {Range(lists[k]) : k \in 1..Len(lists)}

\* one "for pattern in patterns" loop: what it leaves in entities[kind], and what it
\* adds to the set self.entities[kind]
PatternLoop(lists) == [last |-> LastMatching(lists), all |-> AllMatches(lists)]

\* the end of extract_entities, the four loops done
extracted_entities(self, cs, ps, ds, ts) ==
    [entities |-> [customers |-> cs.last,
                   parts     |-> ps.last,
                   dates     |-> ds.last,
                   tables    |-> ts.last],
     self |-> [self EXCEPT !.entities =
        [customers       |-> @.customers \cup cs.all,
         parts           |-> @.parts \cup ps.all,
         tables          |-> @.tables \cup ts.all,
         date_ranges     |-> @.date_ranges,
         last_customer   |-> IF cs.last = <<>> THEN @.last_customer
                             ELSE Some(cs.last[1]),
         last_part       |-> IF ps.last = <<>> THEN @.last_part
                             ELSE Some(ps.last[1]),
         last_date_range |-> IF ds.last = <<>> THEN @.last_date_range
                             ELSE Some(StrOfMatch(ds.last[1]))]]]

\* extract_entities(query): the dict returned (a key that is not set is <<>>) and
\* self.entities afterwards
extract_entities(self, query) ==
    extracted_entities(self,
                       PatternLoop(customer_patterns(query)),
                       PatternLoop(part_patterns(query)),
                       PatternLoop(date_patterns(query)),
                       PatternLoop(table_patterns(query)))

\* any(word in query_lower for word in words)
AnyIn(text, words) == \E w \in words : Contains(text, w)

\* a classification that would look for the words of data_exploration first
classify_exploration_first(query) ==
    LET query_lower == Lower(query)
    IN  IF AnyIn(query_lower, {"count", "how many", "records"})
        THEN "data_exploration"
        ELSE IF AnyIn(query_lower, {"revenue", "sales", "sold", "purchase", "buy"})
        THEN "sales_analysis"
        ELSE IF AnyIn(query_lower, {"inventory", "stock", "carry", "supplier"})
        THEN "inventory_opportunity"
        ELSE IF AnyIn(query_lower, {"competitor", "market", "price", "margin"})
        THEN "competitor_analysis"
        ELSE "general"

classify_query_type(query) ==
    LET query_lower == Lower(query)
    IN  IF AnyIn(query_lower, {"revenue", "sales", "sold", "purchase", "buy"})
        THEN "sales_analysis"
        ELSE IF AnyIn(query_lower, {"inventory", "stock", "carry", "supplier"})
        THEN "inventory_opportunity"
        ELSE IF AnyIn(query_lower, {"competitor", "market", "price", "margin"})
        THEN "competitor_analysis"
        ELSE IF AnyIn(query_lower, {"count", "how many", "records"})
        THEN "data_exploration"
        ELSE "general"

\* s.find(p), as a 1-based position; 0 when p does not occur
Find(s, p) ==
    LET hits == {i \in 1..(Len(s) - Len(p) + 1) : MatchAt(s, i, p)}
    IN  IF hits = {} THEN 0 ELSE CHOOSE i \in hits : \A j \in hits : i <= j

\* s.split(sep)[1]: what stands between the first and the second sep (sep in s)
SecondPart(s, sep) ==
    LET rest == Drop(s, Find(s, sep) + Len(sep) - 1)
    IN  IF Contains(rest, sep) THEN Take(rest, Find(rest, sep) - 1) ELSE rest

extract_filters(query) ==
    IF Contains(Lower(query), "where")
    THEN <<Strip(SecondPart(Lower(query), "where"))>>
    ELSE <<>>

\* the number of groups r',\d{3}' standing one after another from position p on
RECURSIVE CommaGroups(_, _)
CommaGroups(s, p) ==
    IF MatchAt(s, p, ",") /\ SpanIn(s, p + 1, Digits) >= 3
    THEN 1 + CommaGroups(s, p + 4)
    ELSE 0

\* r'\d{1,3}(?:,\d{3})*' at position j: the length of the match, 0 if none
NumberAt(s, j) ==
    LET nd == IF SpanIn(s, j, Digits) >= 3 THEN 3 ELSE SpanIn(s, j, Digits)
    IN  IF nd = 0 THEN 0 ELSE nd + 4 * CommaGroups(s, j + nd)

FindNumbers(s) == Matches(s, [k \in 1..Len(s) |-> NumberAt(s, k)])

\* xs[:n] of a list
FirstN(xs, n) == IF Len(xs) <= n THEN xs ELSE SubSeq(xs, 1, n)

\* xs[-n:] of a list
LastN(xs, n) == IF Len(xs) <= n THEN xs ELSE SubSeq(xs, Len(xs) - n + 1, Len(xs))

SummaryMinLen == 50
SummaryMaxLen == 100
SummaryNumbers == 3

\* the end of create_result_summary, numbers found
summary_of(results, numbers) ==
    IF numbers # <<>>
    THEN "Query returned data with key values: "
         \o Join(", ", FirstN(numbers, SummaryNumbers))
    ELSE IF Len(results) > SummaryMaxLen
         THEN Take(results, SummaryMaxLen) \o "..."
         ELSE results

create_result_summary(results) ==
    IF Len(results) < SummaryMinLen THEN results
    ELSE summary_of(results, FindNumbers(results))

\* the capacity of conversation_history
HistoryCap == 10

\* the table names update_context looks for in query_lower
table_used(query_lower) ==
    IF Contains(query_lower, "ebaywt") THEN Some("ebayWT")
    ELSE IF Contains(query_lower, "ebaynf") THEN Some("ebayNF_SupplierMatch")
    ELSE None

\* a faulty record_context: the history keeps its first HistoryCap contexts
record_first_contexts(self, context) ==
    [self EXCEPT
        !.current_context = Some(context),
        !.conversation_history = FirstN(Append(@, context), HistoryCap)]

\* the end of update_context, the QueryContext built: it becomes the current
\* context and the newest of the history, which keeps its last HistoryCap
record_context(self, context) ==
    [self EXCEPT
        !.current_context = Some(context),
        !.conversation_history = LastN(Append(@, context), HistoryCap)]

\* update_context after extract_entities returned ex
context_of(ex, query, results, now) ==
    record_context(ex.self,
                   [query_text      |-> query,
                    query_type      |-> classify_query_type(query),
                    entities        |-> ex.entities,
                    result_summary  |-> create_result_summary(results),
                    timestamp       |-> now,
                    table_used      |-> table_used(Lower(query)),
                    filters_applied |-> extract_filters(query)])

\* update_context(query, results) at the time now: self afterwards
update_context(self, query, results, now) ==
    context_of(extract_entities(self, query), query, results, now)

\* add_exchange(question, response)
add_exchange(self, question, response) ==
    [self EXCEPT !.chat_history =
        @ \o <<[role |-> "user", content |-> question],
               [role |-> "assistant", content |-> response]>>]

\* one "if pronoun in query.lower() and entity: resolved.replace(pronoun, entity)"
replace_pronoun(query, resolved_query, pronoun, entity) ==
    IF Contains(Lower(query), pronoun) /\ entity # None
    THEN Replace(resolved_query, pronoun, entity[1]) ELSE resolved_query

\* "if 'same period' in query.lower() and last_date_range: resolved += ..."
refer_to_period(query, resolved_query, last_date_range) ==
    IF Contains(Lower(query), "same period") /\ last_date_range # None
    THEN resolved_query \o " (referring to " \o last_date_range[1] \o ")"
    ELSE resolved_query

resolve_pronouns(self, query) ==
    replace_pronoun(query,
        refer_to_period(query,
            replace_pronoun(query,
                replace_pronoun(query, query, "them", self.entities.last_customer),
                "that customer", self.entities.last_customer),
            self.entities.last_date_range),
        "that part", self.entities.last_part)

GeneralSuggestions ==
    <<"Export the current results to CSV",
      "Show me similar analysis for a different time period",
      "Break this down by month to show trends">>

MaxSuggestions == 4

\* the suggestions of the query type, before the general ones are added
TypeSuggestions(ctx) ==
    IF ctx.query_type = "sales_analysis"
    THEN IF ctx.entities.customers # <<>>
         THEN LET customer == ctx.entities.customers[1]
              IN  <<"Compare " \o customer \o " to other top customers",
                    "See what other parts " \o customer \o " is buying",
                    "Show " \o customer \o "'s purchase trends over time",
                    "Check profit margins on " \o customer \o "'s orders">>
         ELSE IF ctx.entities.parts # <<>>
         THEN LET part == ctx.entities.parts[1]
              IN  <<"See which customers buy " \o part \o " most",
                    "Compare " \o part \o " to similar filter sales",
                    "Check " \o part \o " price trends",
                    "Find competitive pricing for " \o part>>
         ELSE <<>>
    ELSE IF ctx.query_type = "inventory_opportunity"
    THEN <<"Find suppliers for high-demand parts you don't carry",
           "Analyze profit potential of stocking these items",
           "Check if demand is growing or declining",
           "See competitor pricing for these parts">>
    ELSE IF ctx.query_type = "competitor_analysis"
    THEN <<"Calculate your market share for these parts",
           "Identify parts where you could undercut prices",
           "Find their best-sellers you don't carry",
           "Track their pricing trends">>
    ELSE IF ctx.query_type = "data_exploration" /\ ctx.table_used # None
    THEN LET table == ctx.table_used[1]
         IN  <<"Show sample records from " \o table,
               "Get column information for " \o table,
               "Find most active customers in " \o table,
               "See recent activity in " \o table>>
    ELSE <<>>

\* suggestions that would begin with the general ones
general_first_suggestions(self) ==
    IF self.current_context = None THEN <<>>
    ELSE FirstN(GeneralSuggestions \o TypeSuggestions(self.current_context[1]),
                MaxSuggestions)

get_follow_up_suggestions(self) ==
    IF self.current_context = None THEN <<>>
    ELSE FirstN(TypeSuggestions(self.current_context[1]) \o GeneralSuggestions,
                MaxSuggestions)

\* a text of one decimal digit or more
AllDigits(s) == s # "" /\ SpanIn(s, 1, Digits) = Len(s)

\* re.match(r'^(option\s+)?\d+$', s), s stripped
IsOptionSelection(s) ==
    \/ AllDigits(s)
    \/ /\ StartsWith(s, "option")
       /\ SpanIn(s, 7, Whitespace) >= 1
       /\ AllDigits(Drop(s, 6 + SpanIn(s, 7, Whitespace)))

follow_up_indicators ==
    {"option", "yes", "no", "show me", "what about", "also",
     "and", "them", "that", "same", "compare", "break down"}

ShortResponseWords == 3

\* is_follow_up_query, query_lower being query.lower().strip()
is_follow_up(query_lower) ==
    IF IsOptionSelection(query_lower) THEN TRUE
    ELSE IF Len(Split(query_lower)) <= ShortResponseWords
         THEN AnyIn(query_lower, follow_up_indicators)
         ELSE AnyIn(query_lower, {"them", "that", "it", "they"})

is_follow_up_query(query) == is_follow_up(Strip(Lower(query)))

\* re.match(r'(?:option\s+)?(\d+)', s), ws characters of whitespace standing after
\* an "option": the group, or "" when there is no match
OptionMatchAfter(s, ws) ==
    IF StartsWith(s, "option") /\ ws >= 1 /\ SpanIn(s, 7 + ws, Digits) >= 1
    THEN SubSeq(s, 7 + ws, 6 + ws + SpanIn(s, 7 + ws, Digits))
    ELSE Take(s, SpanIn(s, 1, Digits))

OptionMatch(s) == OptionMatchAfter(s, SpanIn(s, 7, Whitespace))

\* handle_follow_up_selection with a current context: suggestions made, text being
\* user_input.lower().strip() and option_match the group of the match ("": no match)
selected_suggestion(suggestions, text, option_match) ==
    IF /\ option_match # ""
       /\ 0 <= ParseInt(option_match) - 1
       /\ ParseInt(option_match) - 1 < Len(suggestions)
    THEN Some(suggestions[ParseInt(option_match)])
    ELSE IF text \in {"yes", "sure", "ok", "okay"}
    THEN (IF suggestions # <<>> THEN Some(suggestions[1]) ELSE None)
    ELSE None

selection_in(suggestions, text) == selected_suggestion(suggestions, text, OptionMatch(text))

\* handle_follow_up_selection(user_input): None, or the suggestion selected
handle_follow_up_selection(self, user_input) ==
    IF self.current_context = None THEN None
    ELSE selection_in(get_follow_up_suggestions(self), Strip(Lower(user_input)))

\* enhance_query_with_context: follow_up is what is_follow_up_query(query) returns,
\* follow_up_query what handle_follow_up_selection(query) returns (None: not called,
\* or nothing selected) and resolved what resolve_pronouns(query) returns
enhanced_with(self, follow_up, follow_up_query, resolved) ==
    (IF follow_up_query # None THEN follow_up_query[1] ELSE resolved)
    \o (IF self.current_context # None /\ follow_up
        THEN "\n\nContext: User previously asked '"
             \o self.current_context[1].query_text \o "' "
             \o "and got results showing " \o self.current_context[1].result_summary
        ELSE "")

enhance_follow_up(self, query, follow_up) ==
    enhanced_with(self, follow_up,
                  IF follow_up THEN handle_follow_up_selection(self, query) ELSE None,
                  resolve_pronouns(self, query))

enhance_query_with_context(self, query) ==
    enhance_follow_up(self, query, is_follow_up_query(query))

get_conversation_state(self) ==
    [current_context |-> self.current_context,
     entities        |-> self.entities,
     history_count   |-> Len(self.conversation_history)]

(***************************************************************************)
(* SecureDatabase.query and DatabasePlugin.  A Python value the plugin      *)
(* handles is a text, a list of rows (a row is a tuple of cells), or an      *)
(* exception on its way up.  An operation of the plugin is the set of its    *)
(* possible runs, one for each way the database can answer the statements    *)
(* the run hands to it; log lists those statements in order.                 *)
(***************************************************************************)
Text(s) == [type |-> "str", text |-> s, rows |-> <<>>]
List(rows) == [type |-> "list", text |-> "", rows |-> rows]
Raised(s) == [type |-> "exception", text |-> s, rows |-> <<>>]

\* str(e) of what pyodbc raises
DbErrors == {"connection lost"}
\* how many rows a query can yield
RowCounts == {0, 5, 101}
\* what a COUNT(*) can yield
CountValues == {0, 5, 101, 20000, 200000, 2000000}

\* n rows of one cell
Rows(n) == [i \in 1..n |-> <<i>>]

\* the n of a leading SELECT TOP n, None when the statement has none
RowLimit(stmt) ==
    IF StartsWith(stmt, "SELECT TOP ") /\ SpanIn(stmt, 12, Digits) > 0
    THEN Some(ParseInt(SubSeq(stmt, 12, 11 + SpanIn(stmt, 12, Digits))))
    ELSE None

\* n rows cut to the limit
Limited(n, limit) ==
    IF limit # None /\ limit[1] < n THEN Rows(limit[1]) ELSE Rows(n)

\* cursor.fetchall() after cursor.execute(stmt) went through: of the rows the
\* statement selects, a SELECT TOP n yields n at most
Fetched(stmt) ==
    IF StartsWith(Upper(Strip(stmt)), "SELECT COUNT(*) FROM")
    THEN {<<(<<c>>)>> : c \in CountValues}
    ELSE {Limited(n, RowLimit(Upper(Strip(stmt)))) : n \in RowCounts}

\* the security check of SecureDatabase.query: the statement is turned away
rejected_statement(query_upper) ==
    /\ ~StartsWith(query_upper, "SELECT")
    /\ ~StartsWith(query_upper, "WITH")
    /\ \E w \in {"INSERT", "UPDATE", "DELETE", "DROP"} : Contains(query_upper, w)

\* SecureDatabase.query(query): self.conn.cursor() raises, or the statement is
\* turned away, or executing it fails, or its rows are fetched
SecureDatabase_query(query) ==
    {Raised(e) : e \in DbErrors}
    \cup (IF rejected_statement(Upper(Strip(query)))
          THEN {Text("Error: Only SELECT queries are allowed")}
          ELSE {Text("Database Error: " \o e) : e \in DbErrors}
               \cup {List(rows) : rows \in Fetched(query)})

\* DatabasePlugin.__init__: max_display_rows
max_display_rows == 100

\* n % 1000 in three digits
ThreeDigits(n) ==
    IF n < 10 THEN "00" \o ToString(n)
    ELSE IF n < 100 THEN "0" \o ToString(n) ELSE ToString(n)

\* f"{n:,}", n not negative
RECURSIVE Commas(_)
Commas(n) ==
    IF n < 1000 THEN ToString(n)
    ELSE Commas(n \div 1000) \o "," \o ThreeDigits(n % 1000)

\* ', '.join(xs) of a long list
RECURSIVE JoinAll(_, _)
JoinAll(sep, xs) ==
    IF Len(xs) <= 2 THEN Join(sep, xs)
    ELSE JoinAll(sep, SubSeq(xs, 1, Len(xs) \div 2)) \o sep
         \o JoinAll(sep, SubSeq(xs, Len(xs) \div 2 + 1, Len(xs)))

\* repr of a row, written as Python writes a tuple
RowRepr(row) ==
    "(" \o Join(", ", [k \in 1..Len(row) |-> ToString(row[k])])
    \o (IF Len(row) = 1 THEN ",)" ELSE ")")

\* str(value) of a text or of a list of rows
Str(value) ==
    IF value.type = "list"
    THEN "[" \o JoinAll(", ", [i \in 1..Len(value.rows) |-> RowRepr(value.rows[i])]) \o "]"
    ELSE value.text

\* "result and not isinstance(result, str)"
has_rows(result) == result.type = "list" /\ result.rows # <<>>

\* the parts[...] tests of the simple SELECT * FROM table shape
simple_parts(parts) == Len(parts) >= 4 /\ parts[2] = "*" /\ parts[3] = "FROM"

simple_select(query_upper) ==
    /\ StartsWith(query_upper, "SELECT *")
    /\ ~Contains(query_upper, "WHERE")
    /\ ~Contains(query_upper, "JOIN")
    /\ simple_parts(Split(query_upper))

\* the COUNT query of the simple shape
simple_count_query(query_upper) == "SELECT COUNT(*) FROM " \o Strip(Split(query_upper)[4])

\* the query without its ORDER BY: the position is found in query_upper and the
\* cut is made in query
without_order_by(query, query_upper) ==
    IF Contains(query_upper, "ORDER BY")
    THEN Strip(Take(query, RFind(query_upper, "ORDER BY") - 1))
    ELSE query

\* the COUNT query that wraps the query as a subquery
wrapped_count_query(query) ==
    "SELECT COUNT(*) FROM (" \o without_order_by(query, Upper(Strip(query)))
    \o ") AS count_subquery"

\* the second half of _estimate_row_count, count_query being the wrapping
\* statement; log lists what was handed to the database before
wrapped_estimates(count_query, log) ==
    {[estimate |-> IF has_rows(result) THEN result.rows[1][1] ELSE -1,
      log      |-> Append(log, count_query)] :
        result \in SecureDatabase_query(count_query)}

\* the first half, for a query of the simple shape, count_query being
\* SELECT COUNT(*) FROM table; an exception ends the estimate, an error text or
\* an empty result goes on to the wrapping statement
simple_estimates(query, count_query) ==
    UNION {IF has_rows(result)
           THEN {[estimate |-> result.rows[1][1], log |-> <<count_query>>]}
           ELSE IF result.type = "exception"
           THEN {[estimate |-> -1, log |-> <<count_query>>]}
           ELSE wrapped_estimates(wrapped_count_query(query), <<count_query>>) :
               result \in SecureDatabase_query(count_query)}

\* _estimate_row_count(query): the estimate (-1: unknown) of each run
estimate_row_count(query) ==
    IF simple_select(Upper(Strip(query)))
    THEN simple_estimates(query, simple_count_query(Upper(Strip(query))))
    ELSE wrapped_estimates(wrapped_count_query(query), <<>>)

forbidden_patterns ==
    <<"_BACKUP", "_TEMP", "_STAGING", "_WORK",
      "TEMP_", "BACKUP_", "OLD_", "ARCHIVE_",
      "TEST", "DEV", "INTERMEDIATE">>

\* "for pattern in forbidden_patterns: if pattern in query_upper": the index of
\* the first pattern found, 0 if none is
first_forbidden(query_upper) ==
    LET hits == {k \in 1..Len(forbidden_patterns) :
                    Contains(query_upper, forbidden_patterns[k])}
    IN  IF hits = {} THEN 0 ELSE CHOOSE k \in hits : \A j \in hits : k <= j

\* error_msg
rejection(pattern) ==
    Text("Query rejected: Contains forbidden table pattern '" \o pattern
         \o "'. Only approved production tables are allowed.")

\* what query returns on the sample path (db.query raising there is not caught)
sample_message(estimated_rows, sample_results) ==
    IF sample_results.type = "exception" THEN sample_results
    ELSE Text("Found " \o Commas(estimated_rows)
              \o " records. Here are the first 5 results:\n\n"
              \o Str(sample_results)
              \o "\n\nFull dataset contains " \o Commas(estimated_rows) \o " rows. "
              \o "Would you like to:\n"
              \o "1) See more specific results with filters\n"
              \o "2) Export all " \o Commas(estimated_rows) \o " records to CSV\n"
              \o "3) Show me the generated SQL query")

\* a query that would return whatever the database answered
whole_result(result) == result

\* what query returns after running the query itself
direct_result(result) ==
    IF result.type = "list" /\ Len(result.rows) > max_display_rows
    THEN Text("Query returned " \o Commas(Len(result.rows)) \o " rows (showing first "
              \o ToString(max_display_rows) \o "):\n\n"
              \o Str(List(FirstN(result.rows, max_display_rows)))
              \o "\n\n... and " \o Commas(Len(result.rows) - max_display_rows)
              \o " more rows. "
              \o "Ask me to 'export full results to CSV' if you need all data.")
    ELSE result

sample_query(query) == "SELECT TOP 5 * FROM (" \o query \o ") AS sample_results"

\* a query that would run the query itself whatever the estimate
unsized_query(query, est) ==
    {[result   |-> direct_result(result),
      log      |-> Append(est.log, query),
      estimate |-> est.estimate] :
        result \in SecureDatabase_query(query)}

\* query after the estimate est was made
sized_query(query, est) ==
    IF est.estimate > max_display_rows
    THEN {[result   |-> sample_message(est.estimate, sample_results),
           log      |-> Append(est.log, sample_query(query)),
           estimate |-> est.estimate] :
             sample_results \in SecureDatabase_query(sample_query(query))}
    ELSE {[result   |-> direct_result(result),
           log      |-> Append(est.log, query),
           estimate |-> est.estimate] :
             result \in SecureDatabase_query(query)}

\* query after the loop over forbidden_patterns, found being the index of the
\* first pattern that is in the query (0: none is)
checked_query(query, found) ==
    IF found # 0
    THEN {[result |-> rejection(forbidden_patterns[found]), log |-> <<>>]}
    ELSE UNION {sized_query(query, est) : est \in estimate_row_count(query)}

\* a faulty query: the patterns are looked for in the query as it was written
case_sensitive_query(query) == checked_query(query, first_forbidden(query))

\* DatabasePlugin.query(query)
plugin_query(query) == checked_query(query, first_forbidden(Upper(query)))

\* seconds in two digits
TwoDigits(n) == IF n < 10 THEN "0" \o ToString(n) ELSE ToString(n)

\* datetime.now().strftime("%Y%m%d_%H%M%S"), now being the seconds of a minute
strftime(now) == "20250101_1200" \o TwoDigits(now)

export_filename(now, file_format) ==
    "query_export_" \o strftime(now) \o "." \o file_format

\* the column names of a result whose rows carry no cursor_description
column_names(result) == [i \in 1..Len(result.rows[1]) |-> "Column_" \o ToString(i)]

\* a file that would be left with its header alone
header_only_file(result, file_format) ==
    [format |-> file_format, header |-> column_names(result), lines |-> <<>>]

\* what the csv or the txt branch writes: the header and a line for each row
written_file(result, file_format) ==
    [format |-> file_format,
     header |-> column_names(result),
     lines  |-> [i \in 1..Len(result.rows) |->
                    [k \in 1..Len(result.rows[i]) |-> ToString(result.rows[i][k])]]]

\* _export_to_file after db.query answered: the message, and the export directory
\* afterwards (opened says whether open(filepath, 'w') went through)
exported(result, filename, file_format, files, opened) ==
    IF result.type = "exception"
    THEN [result |-> Text("Export failed: " \o result.text), files |-> files]
    ELSE IF result.type = "str"
    THEN [result |-> Text("Error executing query for export: " \o result.text),
          files  |-> files]
    ELSE IF result.rows = <<>>
    THEN [result |-> Text("Query executed successfully but returned no data to export."),
          files  |-> files]
    ELSE IF Lower(file_format) \in {"csv", "txt"} /\ ~opened
    THEN [result |-> Text("Export failed: [Errno 13] Permission denied"),
          files  |-> files]
    ELSE [result |-> Text("Exported " \o Commas(Len(result.rows)) \o " rows to "
                          \o Upper(file_format) \o " format. File: " \o filename
                          \o " Ready for download from server."),
          files  |-> IF Lower(file_format) \in {"csv", "txt"}
                     THEN (filename :> written_file(result, Lower(file_format)))
                          @@ files
                     ELSE files]

\* _export_to_file(query, file_format) at the time now
export_to_file(query, file_format, now, files) ==
    {[result |-> exported(result, export_filename(now, file_format), file_format,
                          files, opened).result,
      log    |-> <<query>>,
      files  |-> exported(result, export_filename(now, file_format), file_format,
                          files, opened).files] :
        result \in SecureDatabase_query(query), opened \in BOOLEAN}

export_query_to_csv(query, now, files) == export_to_file(query, "csv", now, files)

export_query_to_txt(query, now, files) == export_to_file(query, "txt", now, files)

size_context(row_count) ==
    IF row_count > 1000000 THEN "VERY LARGE - Use specific WHERE conditions or TOP N"
    ELSE IF row_count > 100000 THEN "LARGE - Consider using TOP N for faster queries"
    ELSE IF row_count > 10000 THEN "MEDIUM - Good for most queries"
    ELSE "SMALL - Fast for any query"

\* get_table_size after db.query answered
table_size_message(table_name, result) ==
    IF result.type = "exception"
    THEN Text("Error getting table size: " \o result.text)
    ELSE IF result.type = "str"
    THEN Text("Error getting table size: " \o result.text)
    ELSE IF result.rows # <<>>
    THEN Text("Table '" \o table_name \o "' contains " \o Commas(result.rows[1][1])
              \o " rows. " \o size_context(result.rows[1][1]))
    ELSE Text("Table '" \o table_name \o "' appears to be empty or doesn't exist.")

table_count_query(table_name) == "SELECT COUNT(*) FROM " \o table_name

\* get_table_size(table_name)
get_table_size(table_name) ==
    {[result |-> table_size_message(table_name, result),
      log    |-> <<table_count_query(table_name)>>] :
        result \in SecureDatabase_query(table_count_query(table_name))}

(***************************************************************************)
(* Bounds and inputs                                                       *)
(***************************************************************************)
\* how many session ids uuid4 can mint
MaxSessions == 2
\* how many /ask requests are made
MaxRequests == 2

UUIDs == {"uuid-" \o ToString(i) : i \in 1..MaxSessions}

\* request.question
Questions ==
    {"How many records are in ebayWT?",
     "Option 1"}

\* request.session_id: absent, or an id (registered or not)
SessionIdInputs == {None} \cup {Some(u) : u \in UUIDs}

\* (request.question, request.export_format)
AskInputs ==
    {<<q, None>> : q \in Questions}
        \cup {<<"Option 1", Some("csv")>>, <<"option 3", None>>}

\* how many turns the one long conversation has
MaxUpdates == 12
\* its question
HistoryQuestion == "How many records are in ebayWT?"

\* the content of the last message the chat completion service returns
LLMContents == {"", "The table ebayWT has 42 records."}

\* str(e) of an exception the chat completion service raises
LLMErrors == {"connection reset"}

\* how many calls of the plugin are made
MaxCalls == 2
\* how many seconds the clock of the exports can advance
MaxSeconds == 1

\* the SQL the plugin is called with
PluginQueries ==
    {"SELECT * FROM sales_backup",
     "SELECT * FROM ebayWT",
     " select name from pmsalespbi where qty > 1 order by name",
     "DROP TABLE ebayWT"}

\* the SQL _estimate_row_count is called with
EstimateQueries ==
    {"SELECT * FROM ebayWT",
     "select * from ebayWT order by price",
     "SELECT a,b FROM t WHERE x=1 ORDER BY a",
     "  select a from t order by a",
     "SELECT a FROM (SELECT TOP 9 a FROM t ORDER BY a) s ORDER BY a DESC",
     "SELECT name FROM pmsalespbi",
     "SELECT TOP 5 name FROM pmsalespbi ORDER BY name"}

\* the statements SecureDatabase.query is called with
DatabaseStatements ==
    {"SELECT * FROM ebayWT",
     "  select name from pmsalespbi",
     "WITH t AS (SELECT 1 AS a) SELECT a FROM t",
     "SELECT COUNT(*) FROM ebayWT",
     "INSERT INTO ebayWT VALUES (1)",
     "UPDATE ebayWT SET qty = 1",
     "delete from ebayWT",
     "DROP TABLE ebayWT",
     "TRUNCATE TABLE ebayWT",
     "ALTER TABLE ebayWT ADD b INT",
     "EXEC sp_who",
     "SELECT 1; DROP TABLE ebayWT",
     "CREATE TABLE t (a INT)",
     "MERGE INTO ebayWT USING t ON 1 = 1 WHEN MATCHED THEN DELETE"}

\* the table names get_table_size is called with
TableNames == {"ebayWT", "orders_archive_2020"}

\* request.question of the asks a SimpleKernel answers
SimpleQuestions ==
    {"How many records are in ebayWT?",
     "show name, qty from pmsalespbi",
     "Option 1"}

\* how many calls are made on the ConversationMemory object that is called directly
MaxMemoryCalls == 3

\* the texts of one word to n words, the words taken from words
WordTexts(words, n) ==
    {Join(" ", seq) : seq \in UNION {[1..k -> words] : k \in 1..n}}

\* how many words the texts is_follow_up_query is called with have at most
MaxWords == 3

\* the texts is_follow_up_query is called with
FollowUpTexts ==
    WordTexts({"option", "2", "it", "what"}, MaxWords)
    \cup {"What is the capital of France", "Option 2", " 1 ", "they said so",
          "and what", "what and what and what", "option 2 what what",
          "what what what it",
          "compare that customer to the others", "How many records are in ebayWT?"}

\* the texts handle_follow_up_selection is called with
SelectionTexts ==
    {"1", "option 2", "Option 4", "4", "0", "5", "option 9", "option  3", " 3 ",
     "yes", "Sure", "ok", "okay", "2 more", "12abc", "option x", "maybe", "yes please"}

\* the queries and results update_context is called with before a follow-up
ContextQueries ==
    {"How many records are in ebayWT?",
     "How much revenue did we get from CustomerA"}
ContextResults == {"The table ebayWT has 42 records."}

\* the texts enhance_query_with_context is called with
EnhanceTexts ==
    {"option 1", "Option 9", "yes", "what about them",
     "compare that customer to the others", "hello there",
     "How many records are in ebayWT?"}

\* the queries classify_query_type is called with, and update_context before
\* get_follow_up_suggestions
ClassifyTexts ==
    {"How much revenue did we get from CustomerA",
     "How many records in ebayWT",
     "How many sales records",
     "sales of PFF5225R",
     "Which stock has the best margin",
     "market price records",
     "count the rows",
     "hello"}

\* the queries extract_entities is called with
EntityTexts ==
    {"hello",
     "PFF5225R part sales",
     "Compare CustomerA and CustomerB",
     "CustomerA and buyer Bob",
     "this year and last month",
     "ebayWT and ebayNF_SupplierMatch"}

(***************************************************************************)
(* State                                                                   *)
(***************************************************************************)
VARIABLES
    conversation_sessions,  \* server_api.conversation_sessions: session id -> the
                            \* ConversationMemory object (a reference into memories)
    memories,               \* the live ConversationMemory objects, by reference
    chat_history,           \* server_api.chat_history: the one ChatHistory of the
                            \* process, a list of [role, content]
    requests,               \* the ask_question tasks waiting for the chat
                            \* completion service, oldest first, with their locals
    reply,                  \* the HTTP response sent last
    asked,                  \* the number of /ask requests made so far
    clock                   \* datetime.now(), as a count of the readings taken

VARIABLES
    plugin_reply,           \* the call of the DatabasePlugin made last: the
                            \* operation, its argument and what it returned
    db_log,                 \* the statements that call handed to db.query, in order
    export_files,           \* the files of export_dir, by name
    estimated_rows,         \* estimated_rows of that call when it was a query that
                            \* made an estimate, None otherwise
    calls,                  \* the number of calls of the plugin made so far
    seconds                 \* datetime.now() of the exports, in whole seconds

VARIABLES
    conversation_memory,    \* a ConversationMemory object that is called directly
    last_call,              \* the call made on it last: the method, its argument,
                            \* the object before the call and what the call returned
    ncalls                  \* the number of calls made on it so far

VARIABLES
    blocking_call           \* the call the event loop's one thread is inside of and
                            \* waits for (db.query, made by SimpleKernel.message), with
                            \* the ask_question task that made it; None when the thread
                            \* is free to run a task

server_vars ==
    <<conversation_sessions, memories, chat_history, requests, reply, asked, clock>>
plugin_vars == <<plugin_reply, db_log, estimated_rows, export_files, calls, seconds>>
unit_vars == <<conversation_memory, last_call, ncalls>>
loop_vars == <<blocking_call>>
vars == <<server_vars, plugin_vars, unit_vars, loop_vars>>

(***************************************************************************)
(* server_api.py                                                           *)
(***************************************************************************)
\* a reference for a new object: the least one not in use
Alloc(mems) ==
    CHOOSE r \in 1..(Cardinality(DOMAIN mems) + 1) :
        r \notin DOMAIN mems /\ \A q \in 1..(r - 1) : q \in DOMAIN mems

\* the objects still referenced, by the registry or by a waiting task
Collect(sessions, reqs, mems) ==
    LET live == {sessions[k] : k \in DOMAIN sessions}
                \cup {reqs[i].memory : i \in 1..Len(reqs)}
    IN  [r \in DOMAIN mems \cap live |-> mems[r]]

\* a list without its element i
Remove(xs, i) == SubSeq(xs, 1, i - 1) \o SubSeq(xs, i + 1, Len(xs))

\* uuid.uuid4() yields an id that is not in use
FreshUUIDs(sessions) == UUIDs \ DOMAIN sessions

\* session_id and session_id in conversation_sessions
IsRegistered(sessions, session_id) ==
    session_id # None /\ session_id[1] # "" /\ session_id[1] \in DOMAIN sessions

\* a faulty get_conversation_session: a new session is given the object of a
\* session that is registered already
shared_conversation_session(sessions, mems, session_id, new_session_id) ==
    IF IsRegistered(sessions, session_id)
    THEN [session_id            |-> session_id[1],
          memory                |-> sessions[session_id[1]],
          conversation_sessions |-> sessions,
          memories              |-> mems]
    ELSE IF sessions = <<>>
    THEN [session_id            |-> new_session_id,
          memory                |-> Alloc(mems),
          conversation_sessions |-> (new_session_id :> Alloc(mems)) @@ sessions,
          memories              |-> (Alloc(mems) :> NewConversationMemory) @@ mems]
    ELSE [session_id            |-> new_session_id,
          memory                |-> sessions[CHOOSE s \in DOMAIN sessions : TRUE],
          conversation_sessions |->
              (new_session_id :> sessions[CHOOSE s \in DOMAIN sessions : TRUE])
              @@ sessions,
          memories              |-> mems]

\* a faulty get_conversation_session: the id of the request is not looked up, a
\* request on a registered session starts over with an empty state
forgetful_conversation_session(sessions, mems, session_id, new_session_id) ==
    IF IsRegistered(sessions, session_id)
    THEN [session_id            |-> session_id[1],
          memory                |-> Alloc(mems),
          conversation_sessions |-> [sessions EXCEPT ![session_id[1]] = Alloc(mems)],
          memories              |-> (Alloc(mems) :> NewConversationMemory) @@ mems]
    ELSE [session_id            |-> new_session_id,
          memory                |-> Alloc(mems),
          conversation_sessions |-> (new_session_id :> Alloc(mems)) @@ sessions,
          memories              |-> (Alloc(mems) :> NewConversationMemory) @@ mems]

\* get_conversation_session(session_id); new_session_id is what uuid4() yields
get_conversation_session(sessions, mems, session_id, new_session_id) ==
    IF IsRegistered(sessions, session_id)
    THEN [session_id            |-> session_id[1],
          memory                |-> sessions[session_id[1]],
          conversation_sessions |-> sessions,
          memories              |-> mems]
    ELSE [session_id            |-> new_session_id,
          memory                |-> Alloc(mems),
          conversation_sessions |-> (new_session_id :> Alloc(mems)) @@ sessions,
          memories              |-> (Alloc(mems) :> NewConversationMemory) @@ mems]

\* the query that generate_follow_up_suggestions hands to update_context, in the
\* request for question
suggestion_query(self, question) ==
    IF self.current_context # None THEN self.current_context[1].query_text ELSE ""

\* the end of generate_follow_up_suggestions, the context updated
suggestions_of(updated) ==
    [memory      |-> updated,
     suggestions |-> FirstN(get_follow_up_suggestions(updated), MaxSuggestions)]

\* generate_follow_up_suggestions(conversation_memory, response) in the request
\* for question: the memory afterwards and the suggestions
generate_follow_up_suggestions(self, question, response, now) ==
    suggestions_of(update_context(self, suggestion_query(self, question), response, now))

\* "if request.export_format: enhanced_question += ..."
with_export_format(enhanced, export_format) ==
    IF export_format # None /\ export_format[1] # ""
    THEN enhanced \o " Please export the results to " \o export_format[1] \o " format."
    ELSE enhanced

\* an "option " branch that hands the question on as it was sent
question_as_sent(selected, question) == question

\* the "option " branch of ask_question, selected being what
\* handle_follow_up_selection returned
option_or_question(selected, question) ==
    IF selected # None THEN selected[1] ELSE question

\* the question ask_question hands to kernel.message
enhanced_question(self, question, export_format) ==
    with_export_format(
        IF StartsWith(Strip(Lower(question)), "option ")
        THEN option_or_question(handle_follow_up_selection(self, question), question)
        ELSE enhance_query_with_context(self, question),
        export_format)

UserMessage(text) == [role |-> "user", content |-> text]
AssistantMessage(text) == [role |-> "assistant", content |-> text]

\* Kernel.message gives up after this many retries
max_retries == 2

NoContentText == "I received your request but couldn't generate a response."
ApologyText ==
    "I apologize, but I encountered an error processing your request. Please try again."

\* an HTTP response, with the request it answers
Reply(op, request_session, question, status, session_id, answer, suggestions, state) ==
    [op              |-> op,
     request_session |-> request_session,
     question        |-> question,
     status          |-> status,
     session_id      |-> session_id,
     answer          |-> answer,
     suggestions     |-> suggestions,
     state           |-> state]

NoReply == Reply("", None, "", 0, None, "", None, None)

\* ask_question up to its await: the session is looked up or made, the question is
\* enhanced, and Kernel.message adds the user message and calls the chat completion
\* service
AskBegin(question, session_id, export_format) ==
    /\ \E new_session_id \in
            (IF IsRegistered(conversation_sessions, session_id)
             THEN {""} ELSE FreshUUIDs(conversation_sessions)) :
       \E got \in {get_conversation_session(conversation_sessions, memories,
                                            session_id, new_session_id)} :
       \E enhanced \in {enhanced_question(got.memories[got.memory], question,
                                          export_format)} :
            /\ conversation_sessions' = got.conversation_sessions
            /\ memories' = got.memories
            /\ chat_history' = Append(chat_history, UserMessage(enhanced))
            /\ requests' = Append(requests,
                  [question          |-> question,
                   request_session   |-> session_id,
                   export_format     |-> export_format,
                   session_id        |-> got.session_id,
                   memory            |-> got.memory,
                   enhanced_question |-> enhanced,
                   attempt           |-> 0])
    /\ asked' = asked + 1
    /\ UNCHANGED <<reply, clock, plugin_vars, unit_vars, loop_vars>>

\* a faulty AskRespond: the context of the turn is recorded twice
AskRespondTwice(r, response, history) ==
    \E gen \in {generate_follow_up_suggestions(memories[requests[r].memory],
                                               requests[r].question, response,
                                               clock + 1)} :
    \E again \in {generate_follow_up_suggestions(gen.memory, requests[r].question,
                                                 response, clock + 1)} :
        /\ requests' = Remove(requests, r)
        /\ memories' = Collect(conversation_sessions, requests',
                               [memories EXCEPT ![requests[r].memory] = again.memory])
        /\ chat_history' = history
        /\ reply' = Reply("ask", requests[r].request_session, requests[r].question, 200,
                          Some(requests[r].session_id), response,
                          IF again.suggestions # <<>> THEN Some(again.suggestions)
                          ELSE None,
                          None)
        /\ clock' = clock + 1
        /\ UNCHANGED <<conversation_sessions, asked, plugin_vars, unit_vars, loop_vars>>

\* ask_question after kernel.message returned response: the suggestions are made
\* (which updates the memory object the task holds) and the response is sent
AskRespond(r, response, history) ==
    \E gen \in {generate_follow_up_suggestions(memories[requests[r].memory],
                                               requests[r].question, response,
                                               clock + 1)} :
        /\ requests' = Remove(requests, r)
        /\ memories' = Collect(conversation_sessions, requests',
                               [memories EXCEPT ![requests[r].memory] = gen.memory])
        /\ chat_history' = history
        /\ reply' = Reply("ask", requests[r].request_session, requests[r].question, 200,
                          Some(requests[r].session_id), response,
                          IF gen.suggestions # <<>> THEN Some(gen.suggestions) ELSE None,
                          None)
        /\ clock' = clock + 1
        /\ UNCHANGED <<conversation_sessions, asked, plugin_vars, unit_vars, loop_vars>>

\* ask_question when kernel.message raised: except Exception -> HTTPException(500)
AskFail(r, error) ==
    /\ requests' = Remove(requests, r)
    /\ memories' = Collect(conversation_sessions, requests', memories)
    /\ reply' = Reply("ask", requests[r].request_session, requests[r].question, 500,
                      None, "Error processing question: " \o error, None, None)
    /\ UNCHANGED <<conversation_sessions, chat_history, asked, clock,
                   plugin_vars, unit_vars, loop_vars>>

\* Kernel.message goes round its loop again: the user message is added once more
KernelRetry(r) ==
    /\ requests' = [requests EXCEPT ![r].attempt = @ + 1]
    /\ chat_history' = Append(chat_history, UserMessage(requests[r].enhanced_question))
    /\ UNCHANGED <<conversation_sessions, memories, reply, asked, clock,
                   plugin_vars, unit_vars, loop_vars>>

\* the chat completion service returns messages, the last with this content
LLMReturns(r, content) ==
    /\ r \in 1..Len(requests)
    /\ \E response_text \in {IF Strip(content) # "" THEN content ELSE NoContentText} :
         AskRespond(r, response_text,
                    Append(chat_history, AssistantMessage(response_text)))

\* the chat completion service raises ClientAuthenticationError; refreshed is what
\* _refresh_token_and_reinitialize() returns
LLMAuthError(r, refreshed, error) ==
    /\ r \in 1..Len(requests)
    /\ IF requests[r].attempt < max_retries
       THEN IF refreshed
            THEN KernelRetry(r)
            ELSE AskRespond(r, ApologyText, chat_history)
       ELSE AskFail(r, error)

\* the chat completion service raises any other exception
LLMRaises(r, error) ==
    /\ r \in 1..Len(requests)
    /\ IF requests[r].attempt < max_retries
       THEN KernelRetry(r)
       ELSE AskFail(r, error)

\* a faulty reset_conversation: a registered session keeps its state
ResetKeepingState(session_id) ==
    /\ IF IsRegistered(conversation_sessions, session_id)
       THEN /\ UNCHANGED <<conversation_sessions, memories>>
            /\ reply' = Reply("reset_conversation", session_id, "", 200, session_id,
                              "Conversation reset successfully", None, None)
       ELSE \E new_session_id \in FreshUUIDs(conversation_sessions) :
            /\ conversation_sessions' =
                  (new_session_id :> Alloc(memories)) @@ conversation_sessions
            /\ memories' = (Alloc(memories) :> NewConversationMemory) @@ memories
            /\ reply' = Reply("reset_conversation", session_id, "", 200,
                              Some(new_session_id), "New conversation started",
                              None, None)
    /\ UNCHANGED <<chat_history, requests, asked, clock,
                   plugin_vars, unit_vars, loop_vars>>

\* reset_conversation(request)
ResetConversation(session_id) ==
    /\ IF IsRegistered(conversation_sessions, session_id)
       THEN /\ conversation_sessions' =
                  [conversation_sessions EXCEPT ![session_id[1]] = Alloc(memories)]
            /\ memories' = Collect(conversation_sessions', requests,
                                   (Alloc(memories) :> NewConversationMemory) @@ memories)
            /\ reply' = Reply("reset_conversation", session_id, "", 200, session_id,
                              "Conversation reset successfully", None, None)
       ELSE \E new_session_id \in FreshUUIDs(conversation_sessions) :
            /\ conversation_sessions' =
                  (new_session_id :> Alloc(memories)) @@ conversation_sessions
            /\ memories' = (Alloc(memories) :> NewConversationMemory) @@ memories
            /\ reply' = Reply("reset_conversation", session_id, "", 200,
                              Some(new_session_id), "New conversation started",
                              None, None)
    /\ UNCHANGED <<chat_history, requests, asked, clock,
                   plugin_vars, unit_vars, loop_vars>>

\* get_conversation_state(session_id): the HTTPException(404) is raised inside the
\* try, whose except Exception turns it into an HTTPException(500)
ConversationState(session_id) ==
    /\ IF session_id \notin DOMAIN conversation_sessions
       THEN reply' = Reply("conversation_state", Some(session_id), "", 500, None,
                           "Error getting conversation state: 404: Session not found",
                           None, None)
       ELSE reply' = Reply("conversation_state", Some(session_id), "", 200,
                           Some(session_id), "", None,
                           Some(get_conversation_state(
                                    memories[conversation_sessions[session_id]])))
    /\ UNCHANGED <<conversation_sessions, memories, chat_history, requests, asked, clock,
                   plugin_vars, unit_vars, loop_vars>>

(***************************************************************************)
(* SimpleKernel, the kernel of a server without AI services.  Its message   *)
(* has no await: the event loop's one thread runs it, and waits inside       *)
(* database_service.query until the database answers.                        *)
(***************************************************************************)
\* the text w and the whitespace \s+ after it stand at position p of s: the
\* position after them, 0 if they do not (p = 0: nothing matched before)
SkipWord(s, p, w) ==
    IF p > 0 /\ MatchAt(s, p, w) /\ SpanIn(s, p + Len(w), Whitespace) >= 1
    THEN p + Len(w) + SpanIn(s, p + Len(w), Whitespace)
    ELSE 0

\* ([a-zA-Z_][a-zA-Z0-9_]*) at position p: the group, "" if it does not match
IdentifierAt(s, p) ==
    IF p > 0 /\ p <= Len(s) /\ Char(s, p) \in Letters \cup {"_"}
    THEN SubSeq(s, p, p + SpanIn(s, p, WordChars) - 1)
    ELSE ""

\* r"(?:are\s+)?in\s+([a-zA-Z_][a-zA-Z0-9_]*)" at position p: the group
CountTableFrom(s, p) ==
    IF IdentifierAt(s, SkipWord(s, SkipWord(s, p, "are"), "in")) # ""
    THEN IdentifierAt(s, SkipWord(s, SkipWord(s, p, "are"), "in"))
    ELSE IdentifierAt(s, SkipWord(s, p, "in"))

\* re.match(count_pattern, user_input): group 1, "" if there is no match
count_match(user_input) ==
    CountTableFrom(user_input,
        SkipWord(user_input, SkipWord(user_input, SkipWord(user_input, 1, "how"),
                                       "many"), "records"))

\* the characters of [a-zA-Z0-9_, ]
ColumnChars == WordChars \cup {",", " "}

\* r"\s+from\s+([a-zA-Z_][a-zA-Z0-9_]*)" at position p: the group
SelectTableAt(s, p) ==
    IF p <= Len(s) /\ SpanIn(s, p, Whitespace) >= 1
    THEN IdentifierAt(s, SkipWord(s, p + SpanIn(s, p, Whitespace), "from"))
    ELSE ""

\* the ways r"show\s+([a-zA-Z0-9_, ]+)\s+from\s+(...)" matches at the start of s:
\* <<a, e>> for \s+ taking a characters and group 1 taking e
SelectSplits(s) ==
    IF ~StartsWith(s, "show") THEN {}
    ELSE {ae \in (1..SpanIn(s, 5, Whitespace)) \X (1..Len(s)) :
            /\ ae[2] <= SpanIn(s, 5 + ae[1], ColumnChars)
            /\ SelectTableAt(s, 5 + ae[1] + ae[2]) # ""}

\* the one the regex engine takes: \s+ and then group 1 as long as they can be
SelectSplit(splits) ==
    CHOOSE ae \in splits : \A other \in splits :
        \/ other[1] < ae[1]
        \/ other[1] = ae[1] /\ other[2] <= ae[2]

\* "SELECT TOP 3 " + ', '.join(group1.replace(" ", "").split(",")) + " FROM " + table
select_query(s, ae) ==
    "SELECT TOP 3 "
    \o Replace(Replace(SubSeq(s, 5 + ae[1], 4 + ae[1] + ae[2]), " ", ""), ",", ", ")
    \o " FROM " \o SelectTableAt(s, 5 + ae[1] + ae[2])

\* what SimpleKernel.message asks the database, user_input lower-cased and stripped:
\* the pattern that matched, the table and the statement; None when neither matched
simple_statement(user_input, table, splits) ==
    IF table # ""
    THEN Some([pattern |-> "count", table_name |-> table,
               sql_query |-> "SELECT COUNT(*) FROM " \o table])
    ELSE IF splits # {}
    THEN Some([pattern |-> "select",
               table_name |-> SelectTableAt(user_input, 5 + SelectSplit(splits)[1]
                                                          + SelectSplit(splits)[2]),
               sql_query |-> select_query(user_input, SelectSplit(splits))])
    ELSE None

SorryText ==
    "Sorry, I couldn't understand your query. Try something like "
    \o "'how many records in [table]' or 'show [columns] from [table]'."

\* what SimpleKernel.message returns after database_service.query answered result;
\* is_tuple says whether isinstance(result[0], tuple) holds of the rows the driver
\* returns
simple_response(statement, result, is_tuple) ==
    IF result.type = "exception" THEN "Error executing query: " \o result.text
    ELSE IF result.type = "str" THEN result.text
    ELSE IF statement.pattern = "count"
    THEN (IF result.rows # <<>> /\ is_tuple
          THEN "The table " \o statement.table_name \o " has "
               \o Commas(result.rows[1][1]) \o " records."
          ELSE "No records found in table " \o statement.table_name \o ".")
    ELSE (IF result.rows # <<>>
          THEN "Query returned " \o ToString(Len(result.rows)) \o " rows: " \o Str(result)
          ELSE "No records found in table " \o statement.table_name \o ".")

\* ask_question after SimpleKernel.message returned response to task
SimpleAskRespond(task, response, sessions, mems) ==
    \E gen \in {generate_follow_up_suggestions(mems[task.memory], task.question,
                                               response, clock + 1)} :
        /\ conversation_sessions' = sessions
        /\ memories' = Collect(sessions, requests,
                               [mems EXCEPT ![task.memory] = gen.memory])
        /\ reply' = Reply("ask", task.request_session, task.question, 200,
                          Some(task.session_id), response,
                          IF gen.suggestions # <<>> THEN Some(gen.suggestions) ELSE None,
                          None)
        /\ clock' = clock + 1
        /\ blocking_call' = None

\* ask_question with a SimpleKernel, task being its locals after the question was
\* enhanced: message returns at once when no pattern matches, and else the thread
\* goes into database_service.query
SimpleAskCall(task, statement, sessions, mems) ==
    /\ IF statement = None
       THEN SimpleAskRespond(task, SorryText, sessions, mems)
       ELSE /\ conversation_sessions' = sessions
            /\ memories' = mems
            /\ blocking_call' = Some([task |-> task, statement |-> statement[1]])
            /\ UNCHANGED <<reply, clock>>
    /\ asked' = asked + 1
    /\ UNCHANGED <<chat_history, requests, plugin_vars, unit_vars>>

\* ask_question is scheduled: the thread must be free to run it
SimpleAskBegin(question, session_id, export_format) ==
    /\ blocking_call = None
    /\ \E new_session_id \in
            (IF IsRegistered(conversation_sessions, session_id)
             THEN {""} ELSE FreshUUIDs(conversation_sessions)) :
       \E got \in {get_conversation_session(conversation_sessions, memories,
                                            session_id, new_session_id)} :
       \E enhanced \in {enhanced_question(got.memories[got.memory], question,
                                          export_format)} :
       \E user_input \in {Strip(Lower(enhanced))} :
       \E statement \in {simple_statement(user_input, count_match(user_input),
                                          SelectSplits(user_input))} :
            SimpleAskCall([question          |-> question,
                           request_session   |-> session_id,
                           export_format     |-> export_format,
                           session_id        |-> got.session_id,
                           memory            |-> got.memory,
                           enhanced_question |-> enhanced],
                          statement, got.conversation_sessions, got.memories)

\* database_service.query answers, and the thread runs the task to its end
SimpleDbReturns(is_tuple) ==
    /\ blocking_call # None
    /\ \E result \in SecureDatabase_query(blocking_call[1].statement.sql_query) :
       SimpleAskRespond(blocking_call[1].task,
                        simple_response(blocking_call[1].statement, result, is_tuple),
                        conversation_sessions, memories)
    /\ UNCHANGED <<chat_history, requests, asked, plugin_vars, unit_vars>>

(***************************************************************************)
(* The calls of the DatabasePlugin (the chat completion service makes them  *)
(* through the kernel's function calling)                                   *)
(***************************************************************************)
NoCall == [op |-> "", arg |-> "", result |-> Text("")]

\* a call returns (or raises) as the run says
PluginReturns(op, arg, run, files) ==
    /\ calls < MaxCalls
    /\ plugin_reply' = [op |-> op, arg |-> arg, result |-> run.result]
    /\ db_log' = run.log
    /\ estimated_rows' = IF "estimate" \in DOMAIN run THEN Some(run.estimate) ELSE None
    /\ export_files' = files
    /\ calls' = calls + 1
    /\ UNCHANGED <<seconds, server_vars, unit_vars, loop_vars>>

Query(query) ==
    \E run \in plugin_query(query) : PluginReturns("query", query, run, export_files)

ExportQueryToCsv(query) ==
    \E run \in export_query_to_csv(query, seconds, export_files) :
        PluginReturns("export_query_to_csv", query, run, run.files)

ExportQueryToTxt(query) ==
    \E run \in export_query_to_txt(query, seconds, export_files) :
        PluginReturns("export_query_to_txt", query, run, run.files)

GetTableSize(table_name) ==
    \E run \in get_table_size(table_name) :
        PluginReturns("get_table_size", table_name, run, export_files)

\* SecureDatabase.query called by itself
DatabaseQuery(query) ==
    \E result \in SecureDatabase_query(query) :
        PluginReturns("SecureDatabase.query", query,
                      [result |-> result, log |-> <<query>>], export_files)

\* _estimate_row_count called by itself: the reply is the int it returns
EstimateRowCount(query) ==
    \E est \in estimate_row_count(query) :
        PluginReturns("_estimate_row_count", query,
                      [result |-> est.estimate, log |-> est.log], export_files)

\* a second passes
Tick ==
    /\ seconds < MaxSeconds
    /\ seconds' = seconds + 1
    /\ UNCHANGED <<plugin_reply, db_log, estimated_rows, export_files, calls,
                   server_vars, unit_vars, loop_vars>>

(***************************************************************************)
(* Calls made on one ConversationMemory object directly                     *)
(***************************************************************************)
NoMethodCall ==
    [method |-> "", arg |-> "", before |-> NewConversationMemory, result |-> None]

\* a method of the object returns result and leaves the object as after
MemoryCall(method, arg, result, after) ==
    /\ ncalls < MaxMemoryCalls
    /\ last_call' = [method |-> method, arg |-> arg,
                     before |-> conversation_memory, result |-> result]
    /\ conversation_memory' = after
    /\ ncalls' = ncalls + 1
    /\ UNCHANGED <<server_vars, plugin_vars, loop_vars>>

ExtractEntities(query) ==
    \E ex \in {extract_entities(conversation_memory, query)} :
        MemoryCall("extract_entities", query, ex.entities, ex.self)

\* datetime.now() is read as the number of the call
UpdateContext(query, results) ==
    \E after \in {update_context(conversation_memory, query, results, ncalls + 1)} :
        MemoryCall("update_context", query, None, after)

ClassifyQueryType(query) ==
    MemoryCall("classify_query_type", query, classify_query_type(query),
               conversation_memory)

GetFollowUpSuggestions ==
    MemoryCall("get_follow_up_suggestions", "",
               get_follow_up_suggestions(conversation_memory), conversation_memory)

IsFollowUpQuery(query) ==
    MemoryCall("is_follow_up_query", query, is_follow_up_query(query),
               conversation_memory)

EnhanceQueryWithContext(query) ==
    MemoryCall("enhance_query_with_context", query,
               enhance_query_with_context(conversation_memory, query),
               conversation_memory)

HandleFollowUpSelection(user_input) ==
    MemoryCall("handle_follow_up_selection", user_input,
               handle_follow_up_selection(conversation_memory, user_input),
               conversation_memory)

Init ==
    /\ conversation_memory = NewConversationMemory
    /\ last_call = NoMethodCall
    /\ ncalls = 0
    /\ blocking_call = None
    /\ conversation_sessions = <<>>
    /\ memories = <<>>
    /\ chat_history = <<>>
    /\ requests = <<>>
    /\ reply = NoReply
    /\ asked = 0
    /\ clock = 0
    /\ plugin_reply = NoCall
    /\ db_log = <<>>
    /\ estimated_rows = None
    /\ export_files = <<>>
    /\ calls = 0
    /\ seconds = 0

\* the asks: the ask_question tasks with every outcome of the chat completion call
Next ==
    \/ /\ asked < MaxRequests
       /\ \E in \in AskInputs, sid \in SessionIdInputs : AskBegin(in[1], sid, in[2])
    \/ \E r \in 1..MaxRequests, c \in LLMContents : LLMReturns(r, c)
    \/ \E r \in 1..MaxRequests, ok \in BOOLEAN, e \in LLMErrors : LLMAuthError(r, ok, e)
    \/ \E r \in 1..MaxRequests, e \in LLMErrors : LLMRaises(r, e)

Spec == Init /\ [][Next]_vars

\* the session registry: asks that are answered, resets and state lookups
NextSessions ==
    \/ /\ asked < MaxRequests
       /\ \E q \in Questions, sid \in SessionIdInputs : AskBegin(q, sid, None)
    \/ \E r \in 1..MaxRequests, c \in LLMContents : LLMReturns(r, c)
    \/ \E sid \in SessionIdInputs : ResetConversation(sid)
    \/ \E u \in UUIDs : ConversationState(u)

SpecSessions == Init /\ [][NextSessions]_vars

\* one conversation, one turn after the other, longer than the history's capacity
NextHistory ==
    \/ /\ asked < MaxUpdates
       /\ requests = <<>>
       /\ \E sid \in SessionIdInputs :
            /\ IF conversation_sessions = <<>> THEN sid = None
               ELSE IsRegistered(conversation_sessions, sid)
            /\ AskBegin(HistoryQuestion, sid, None)
    \/ \E c \in LLMContents : LLMReturns(1, c)

SpecHistory == Init /\ [][NextHistory]_vars

\* the database plugin: its operations, with every answer of the database
NextPlugin ==
    \/ \E query \in PluginQueries : Query(query)
    \/ \E query \in PluginQueries : ExportQueryToCsv(query)
    \/ \E query \in PluginQueries : ExportQueryToTxt(query)
    \/ \E table_name \in TableNames : GetTableSize(table_name)
    \/ Tick

SpecPlugin == Init /\ [][NextPlugin]_vars

\* the estimate: _estimate_row_count called by itself, under every answer of the
\* database
NextEstimate ==
    \/ \E query \in EstimateQueries : EstimateRowCount(query)

SpecEstimate == Init /\ [][NextEstimate]_vars

\* the database service: SecureDatabase.query called by itself
NextDatabase ==
    \/ \E query \in DatabaseStatements : DatabaseQuery(query)

SpecDatabase == Init /\ [][NextDatabase]_vars

\* the asks of a server whose kernel is a SimpleKernel
NextSimpleKernel ==
    \/ /\ asked < MaxRequests
       /\ \E question \in SimpleQuestions, sid \in SessionIdInputs :
            SimpleAskBegin(question, sid, None)
    \/ \E is_tuple \in BOOLEAN : SimpleDbReturns(is_tuple)

SpecSimpleKernel == Init /\ [][NextSimpleKernel]_vars

\* follow-ups: is_follow_up_query and handle_follow_up_selection, called on an
\* object with no context, or with the context update_context left
NextFollowUp ==
    \/ \E query \in ContextQueries, results \in ContextResults :
            UpdateContext(query, results)
    \/ \E query \in FollowUpTexts : IsFollowUpQuery(query)
    \/ \E user_input \in SelectionTexts : HandleFollowUpSelection(user_input)

SpecFollowUp == Init /\ [][NextFollowUp]_vars

\* enhancement: enhance_query_with_context, called on an object with no context,
\* or with the context update_context left
NextEnhance ==
    \/ \E query \in ContextQueries, results \in ContextResults :
            UpdateContext(query, results)
    \/ \E query \in EnhanceTexts : EnhanceQueryWithContext(query)

SpecEnhance == Init /\ [][NextEnhance]_vars

\* entities: extract_entities and update_context, called one after the other on
\* one object that is never reset
NextEntities ==
    \/ \E query \in EntityTexts : ExtractEntities(query)
    \/ \E query \in ContextQueries, results \in ContextResults :
            UpdateContext(query, results)

SpecEntities == Init /\ [][NextEntities]_vars

\* classification and suggestions: classify_query_type and
\* get_follow_up_suggestions, called on an object with no context, or with the
\* context update_context left
NextClassify ==
    \/ \E query \in ClassifyTexts, results \in ContextResults :
            UpdateContext(query, results)
    \/ \E query \in ClassifyTexts : ClassifyQueryType(query)
    \/ GetFollowUpSuggestions

SpecClassify == Init /\ [][NextClassify]_vars

(***************************************************************************)
(* The claims                                                              *)
(***************************************************************************)
\* the ConversationMemory object of a registered session
MemoryOf(sessions, mems, session_id) == mems[sessions[session_id]]

\* the response sent last answers an ask that went through
AskAnswered == reply.op = "ask" /\ reply.status = 200 /\ reply.session_id # None

\* C1: after an ask completed successfully, the newest QueryContext of its session
\* (the current context and the last entry of the history) has the text of this
\* turn as its query_text, and its query_type, entities and table_used are those
\* of that text.
C1_TurnTextRecorded ==
    AskAnswered =>
        \E context \in {MemoryOf(conversation_sessions, memories,
                                 reply.session_id[1]).current_context} :
            /\ context # None
            /\ context[1].query_text = reply.question
            /\ context[1].query_type = classify_query_type(reply.question)
            /\ context[1].table_used = table_used(Lower(reply.question))
            /\ context[1].entities =
                   extract_entities(NewConversationMemory, reply.question).entities
            /\ \E history \in {MemoryOf(conversation_sessions, memories,
                                        reply.session_id[1]).conversation_history} :
                   history # <<>> /\ history[Len(history)] = context[1]

\* task r is the second turn of the scenario: "Option 1", sent with the id of the
\* session whose one turn "How many records are in ebayWT?" was answered before
SecondTurn(r) ==
    /\ AskAnswered
    /\ reply.question = "How many records are in ebayWT?"
    /\ clock = 1
    /\ Len(chat_history) = 3
    /\ chat_history[2].role = "assistant"
    /\ requests[r].question = "Option 1"
    /\ requests[r].export_format = None
    /\ requests[r].attempt = 0
    /\ requests[r].request_session = reply.session_id
    /\ requests[r].session_id = reply.session_id[1]

\* C2: "How many records are in ebayWT?" and then "Option 1" on the same session:
\* the first turn is recorded as data_exploration with table_used ebayWT, and the
\* text handed to the chat completion service in the second is a suggestion about
\* ebayWT, not a general suggestion and not "Option 1" itself.
C2_OptionOneIsAboutTheTable ==
    \A r \in 1..Len(requests) :
        SecondTurn(r) =>
            /\ \E history \in {MemoryOf(conversation_sessions, memories,
                                        requests[r].session_id).conversation_history} :
                   /\ Len(history) = 1
                   /\ history[1].query_type = "data_exploration"
                   /\ history[1].table_used = Some("ebayWT")
            /\ Contains(requests[r].enhanced_question, "ebayWT")
            /\ requests[r].enhanced_question \notin Range(GeneralSuggestions)
            /\ requests[r].enhanced_question # "Option 1"
            /\ chat_history[3] = UserMessage(requests[r].enhanced_question)

\* the step ends task r, which belongs to session_id, with a response
Completes(r, session_id) ==
    /\ requests[r].session_id = session_id
    /\ requests' = Remove(requests, r)
    /\ reply'.op = "ask"

\* C3: two asks on distinct session ids, however they interleave, do not read or
\* write each other's state: the object of a registered session changes only in
\* the step that answers a turn of that session, and then to what that turn makes
\* of the session's own state; the question a turn hands on is made from the state
\* of its own session; no two sessions have one object.
C3_SessionsIsolated ==
    [][/\ \A s \in DOMAIN conversation_sessions :
            /\ s \in DOMAIN conversation_sessions'
            /\ conversation_sessions'[s] = conversation_sessions[s]
            /\ \/ MemoryOf(conversation_sessions', memories', s)
                    = MemoryOf(conversation_sessions, memories, s)
               \/ \E r \in 1..Len(requests) :
                    /\ Completes(r, s)
                    /\ MemoryOf(conversation_sessions', memories', s) =
                         generate_follow_up_suggestions(
                             MemoryOf(conversation_sessions, memories, s),
                             requests[r].question, reply'.answer, clock').memory
       /\ Len(requests') > Len(requests) =>
            \E new \in {requests'[Len(requests')]} :
                new.enhanced_question =
                    enhanced_question(
                        IF new.session_id \in DOMAIN conversation_sessions
                        THEN MemoryOf(conversation_sessions, memories, new.session_id)
                        ELSE NewConversationMemory,
                        new.question, new.export_format)
       /\ \A s1, s2 \in DOMAIN conversation_sessions' :
            s1 # s2 => conversation_sessions'[s1] # conversation_sessions'[s2]
      ]_vars

\* two turns on two sessions, the second begun before the first was answered, and
\* both answered
C3_Witness ==
    /\ Cardinality(DOMAIN conversation_sessions) = 2
    /\ requests = <<>>
    /\ clock = 2
    /\ Len(chat_history) = 4
    /\ chat_history[1].role = "user"
    /\ chat_history[2].role = "user"
    /\ \A s \in DOMAIN conversation_sessions :
            Len(MemoryOf(conversation_sessions, memories, s).conversation_history) = 1

\* the substrings of the deny list
DenyList ==
    {"_backup", "_temp", "_staging", "_work", "temp_", "backup_", "old_", "archive_",
     "test", "dev", "intermediate"}

DenyListed(text) == \E p \in DenyList : Contains(Lower(text), p)

\* C4: a text with a deny-listed substring is never handed to db.query, as itself
\* or wrapped in another statement, by any operation of the plugin (query, export
\* to CSV, export to TXT, table size).
C4_DenyListedNeverReachesTheDatabase ==
    DenyListed(plugin_reply.arg) => db_log = <<>>

\* C5: query looks for the deny-listed substrings first: for a query text with one
\* of them it returns a refusal that names a pattern found in the text, it raises
\* nothing, and it hands nothing to db.query.
C5_QueryRefusesFirst ==
    (plugin_reply.op = "query" /\ DenyListed(plugin_reply.arg)) =>
        /\ plugin_reply.result.type = "str"
        /\ StartsWith(plugin_reply.result.text, "Query rejected")
        /\ \E p \in DenyList :
              /\ Contains(Lower(plugin_reply.arg), p)
              /\ Contains(Lower(plugin_reply.result.text), "'" \o p \o "'")
        /\ db_log = <<>>

\* a deny-listed query was refused after another call had been made
C5_Witness ==
    /\ plugin_reply.op = "query"
    /\ DenyListed(plugin_reply.arg)
    /\ calls = 2

\* C6: the lookup of the state of a session id that is not registered answers with
\* a not-found result of its own (HTTP 404), which the caller can tell from an
\* internal failure (HTTP 500); for a registered id the answer carries the state of
\* that session, and nothing changes.
C6_UnknownSessionIsNotFound ==
    [][\A session_id \in UUIDs :
          ConversationState(session_id) =>
              /\ reply'.op = "conversation_state"
              /\ IF session_id \in DOMAIN conversation_sessions
                 THEN /\ reply'.status = 200
                      /\ reply'.state = Some(get_conversation_state(
                             MemoryOf(conversation_sessions, memories, session_id)))
                 ELSE /\ reply'.status = 404
                      /\ reply'.state = None
              /\ UNCHANGED <<conversation_sessions, memories>>
      ]_vars

\* C7: no fault of the chat completion service fails the ask: when it fails, also
\* after the retries, the ask answers normally, with a text and the session id.
C7_AskNeverFails ==
    reply.op = "ask" =>
        /\ reply.status = 200
        /\ reply.session_id # None
        /\ reply.answer # ""

\* the least of two numbers
Min(a, b) == IF a <= b THEN a ELSE b

\* C8: the history of a session holds at most 10 contexts, and after N updates, one
\* after the other, it is the contexts of the last min(N, 10) of them in the order
\* they came (update k reads the clock as k and summarises the k-th answer).
C8_HistoryKeepsLastTen ==
    \A s \in DOMAIN conversation_sessions :
        \E history \in {MemoryOf(conversation_sessions, memories, s).conversation_history} :
            /\ Len(history) <= 10
            /\ Len(history) = Min(clock, 10)
            /\ \A i \in 1..Len(history) :
                  /\ history[i].timestamp = clock - Len(history) + i
                  /\ 2 * history[i].timestamp <= Len(chat_history)
                  /\ history[i].result_summary =
                       create_result_summary(chat_history[2 * history[i].timestamp].content)
            /\ Len(history) > 0 =>
                  MemoryOf(conversation_sessions, memories, s).current_context
                      = Some(history[Len(history)])

\* more updates than the history holds: the oldest contexts are gone
C8_Witness ==
    /\ clock = 12
    /\ \E s \in DOMAIN conversation_sessions :
          \E history \in {MemoryOf(conversation_sessions, memories, s).conversation_history} :
              /\ Len(history) = 10
              /\ history[1].timestamp = 3
              /\ \E i, j \in 1..10 : history[i].result_summary # history[j].result_summary

\* every id of the registry has its own object, which is live
RegistryWellFormed(sessions, mems) ==
    /\ \A s \in DOMAIN sessions : sessions[s] \in DOMAIN mems
    /\ \A s1, s2 \in DOMAIN sessions : s1 # s2 => sessions[s1] # sessions[s2]

\* C9: get_conversation_session(id), as ask_question calls it: for a registered id
\* it returns that id and the state registered under it, and the registry is as it
\* was; otherwise it returns an id that was not registered and registers a new,
\* empty state under it, all other sessions being as they were.  The registry
\* maps each id to one state of its own.
C9_GetOrCreate ==
    [][/\ Len(requests') > Len(requests) =>
            \E new \in {requests'[Len(requests')]} :
                IF /\ new.request_session # None
                   /\ new.request_session[1] \in DOMAIN conversation_sessions
                THEN /\ new.session_id = new.request_session[1]
                     /\ new.memory = conversation_sessions[new.session_id]
                     /\ conversation_sessions' = conversation_sessions
                     /\ memories' = memories
                ELSE /\ new.session_id \notin DOMAIN conversation_sessions
                     /\ DOMAIN conversation_sessions' =
                            DOMAIN conversation_sessions \cup {new.session_id}
                     /\ conversation_sessions'[new.session_id] = new.memory
                     /\ new.memory \notin DOMAIN memories
                     /\ memories'[new.memory] = NewConversationMemory
                     /\ \A s \in DOMAIN conversation_sessions :
                           /\ conversation_sessions'[s] = conversation_sessions[s]
                           /\ MemoryOf(conversation_sessions', memories', s)
                                = MemoryOf(conversation_sessions, memories, s)
       /\ RegistryWellFormed(conversation_sessions', memories')
      ]_vars

\* a turn was answered on a session, and a second turn with the id of that session
\* waits for its answer, while another session is registered too
C9_Witness ==
    /\ Cardinality(DOMAIN conversation_sessions) = 2
    /\ AskAnswered
    /\ Len(requests) = 1
    /\ requests[1].request_session = reply.session_id
    /\ requests[1].memory = conversation_sessions[reply.session_id[1]]
    /\ MemoryOf(conversation_sessions, memories,
                reply.session_id[1]).current_context # None

\* a state that is empty
EmptyState(self) ==
    /\ self.entities.customers = {}
    /\ self.entities.parts = {}
    /\ self.entities.tables = {}
    /\ self.entities.last_customer = None
    /\ self.entities.last_part = None
    /\ self.entities.last_date_range = None
    /\ self.conversation_history = <<>>
    /\ self.current_context = None

\* every session but session_id is as it was
OthersUnchanged(session_id) ==
    \A s \in DOMAIN conversation_sessions \ {session_id} :
        /\ s \in DOMAIN conversation_sessions'
        /\ conversation_sessions'[s] = conversation_sessions[s]
        /\ MemoryOf(conversation_sessions', memories', s)
             = MemoryOf(conversation_sessions, memories, s)

\* C10: reset_conversation with a registered id answers with that id, and the id
\* maps to an empty state afterwards, whatever turns came before; with no id, or
\* one that is not registered, it registers a new id with an empty state.  All
\* other sessions are as they were.
C10_ResetEmptiesTheSession ==
    [][\A session_id \in SessionIdInputs :
          ResetConversation(session_id) =>
              /\ reply'.op = "reset_conversation"
              /\ reply'.status = 200
              /\ reply'.session_id # None
              /\ IF session_id # None /\ session_id[1] \in DOMAIN conversation_sessions
                 THEN /\ reply'.session_id = session_id
                      /\ DOMAIN conversation_sessions' = DOMAIN conversation_sessions
                 ELSE /\ reply'.session_id[1] \notin DOMAIN conversation_sessions
                      /\ DOMAIN conversation_sessions' =
                            DOMAIN conversation_sessions \cup {reply'.session_id[1]}
              /\ EmptyState(MemoryOf(conversation_sessions', memories',
                                     reply'.session_id[1]))
              /\ OthersUnchanged(reply'.session_id[1])
      ]_vars

\* two sessions had a turn each, and one of them was reset
C10_Witness ==
    /\ reply.op = "reset_conversation"
    /\ reply.answer = "Conversation reset successfully"
    /\ clock = 2
    /\ requests = <<>>
    /\ Cardinality(DOMAIN conversation_sessions) = 2
    /\ EmptyState(MemoryOf(conversation_sessions, memories, reply.session_id[1]))
    /\ \E s \in DOMAIN conversation_sessions :
          Len(MemoryOf(conversation_sessions, memories, s).conversation_history) = 1

\* C11: asks that overlap on one session do not race: every step leaves the
\* history of a registered session as it was, but the step that answers a turn of
\* that session, which appends one context, the new current context (the history
\* keeping its last 10); so after both turns the history has one context for each
\* turn answered, none lost and none twice.  The registry holds one state for the id.
C11_OneContextPerAnsweredTurn ==
    [][/\ \A s \in DOMAIN conversation_sessions :
            /\ s \in DOMAIN conversation_sessions'
            /\ conversation_sessions'[s] = conversation_sessions[s]
            /\ MemoryOf(conversation_sessions', memories', s).conversation_history =
                 IF \E r \in 1..Len(requests) : Completes(r, s) /\ reply'.status = 200
                 THEN LastN(Append(
                        MemoryOf(conversation_sessions, memories, s).conversation_history,
                        MemoryOf(conversation_sessions', memories', s).current_context[1]),
                        10)
                 ELSE MemoryOf(conversation_sessions, memories, s).conversation_history
       /\ RegistryWellFormed(conversation_sessions', memories')
      ]_vars

\* two turns on one session, the second begun while the first waited for its
\* answer, and both answered
C11_Witness ==
    /\ Cardinality(DOMAIN conversation_sessions) = 1
    /\ requests = <<>>
    /\ clock = 2
    /\ Len(chat_history) = 4
    /\ chat_history[1].role = "user"
    /\ chat_history[2].role = "user"
    /\ chat_history[3].role = "assistant"
    /\ chat_history[4].role = "assistant"
    /\ \A s \in DOMAIN conversation_sessions :
          /\ Len(MemoryOf(conversation_sessions, memories, s).conversation_history) = 2
          /\ MemoryOf(conversation_sessions, memories, s).conversation_history[1].timestamp = 1
          /\ MemoryOf(conversation_sessions, memories, s).conversation_history[2].timestamp = 2

\* C12: a call of the database that has not returned, made in the turn of one
\* session, does not stall the other sessions: while it lasts, an ask of another
\* session can be scheduled and run up to its own call of the kernel.
C12_BlockingCallStallsNoOtherSession ==
    blocking_call # None =>
        \E question \in SimpleQuestions, sid \in SessionIdInputs :
            /\ sid # Some(blocking_call[1].task.session_id)
            /\ ENABLED SimpleAskBegin(question, sid, None)

\* the indicators of a short follow-up
FollowUpIndicators ==
    {"option", "yes", "no", "show me", "what about", "also", "and", "them", "that",
     "same", "compare", "break down"}

\* the pronouns of a follow-up
FollowUpPronouns == {"them", "that", "it", "they"}

\* C13: is_follow_up_query(text) is true exactly when the trimmed, lower-cased
\* text matches ^(option\s+)?\d+$, or has at most 3 words and contains an
\* indicator, or contains one of the pronouns them, that, it, they, the last
\* whatever the length of the text.
C13_FollowUpIsOneOfThree ==
    last_call.method = "is_follow_up_query" =>
        \E text \in {Strip(Lower(last_call.arg))} :
            last_call.result =
                (\/ IsOptionSelection(text)
                 \/ Len(Split(text)) <= 3 /\ AnyIn(text, FollowUpIndicators)
                 \/ AnyIn(text, FollowUpPronouns))

\* C14: is_follow_up_query is false of a self-contained question, a text of more
\* than 3 words that is no number and no "option N" and has none of them, that,
\* it, they as a word ("What is the capital of France"); it is true of
\* "option 2" and of "1".
C14_SelfContainedIsNoFollowUp ==
    last_call.method = "is_follow_up_query" =>
        \E text \in {Strip(Lower(last_call.arg))} :
            /\ (/\ Len(Split(text)) > 3
                /\ ~IsOptionSelection(text)
                /\ Range(Split(text)) \cap FollowUpPronouns = {})
               => last_call.result = FALSE
            /\ text \in {"option 2", "1"} => last_call.result = TRUE

\* the number N of a text that is N or "option N"
SelectionNumber(text) == ParseInt(Drop(text, Len(text) - SpanBack(text, Digits)))

\* what the selection of text among suggestions is to be
ExpectedSelection(text, suggestions) ==
    IF IsOptionSelection(text)
    THEN (IF SelectionNumber(text) \in 1..Len(suggestions)
          THEN Some(suggestions[SelectionNumber(text)]) ELSE None)
    ELSE IF text \in {"yes", "sure", "ok", "okay"}
    THEN Some(suggestions[1])
    ELSE None

\* C15: handle_follow_up_selection(text): a text that is a number N or "option N"
\* yields suggestions[N-1] when N is from 1 to the number of suggestions and None
\* when it is not; yes, sure, ok, okay yield suggestions[0]; every other text,
\* also one that only begins with digits, yields None; without a current context
\* the result is None.
C15_SelectionByNumberOrYes ==
    last_call.method = "handle_follow_up_selection" =>
        IF last_call.before.current_context = None
        THEN last_call.result = None
        ELSE last_call.result =
                ExpectedSelection(Strip(Lower(last_call.arg)),
                                  get_follow_up_suggestions(last_call.before))

\* C16: extract_entities of a text whose only part-number-shaped token (2-4
\* letters, 3-5 digits, an optional letter) is X, whatever the words around it:
\* the parts list returned has X, the parts set of the object has X, and last_part
\* is X afterwards.
C16_OnlyPartTokenIsExtracted ==
    (last_call.method = "extract_entities" /\ Len(FindPartToken(last_call.arg)) = 1)
        => \E X \in Range(FindPartToken(last_call.arg)) :
              /\ X \in Range(last_call.result.parts)
              /\ X \in conversation_memory.entities.parts
              /\ conversation_memory.entities.last_part = Some(X)

\* every text that one of the patterns of a kind finds in a query
EveryMatch(lists) ==
    UNION {{lists[k][i] : i \in DOMAIN lists[k]} : k \in DOMAIN lists}

\* the set after a call is the set before it and what the call found
GrownBy(before, after, found) ==
    /\ before \subseteq after
    /\ found \subseteq after
    /\ after \subseteq before \cup found

\* the sets after a call are the sets before it and the matches of the patterns
EntitiesGrownBy(before, after, cs, ps, ts) ==
    /\ \E found \in {EveryMatch(cs)} : GrownBy(before.customers, after.customers, found)
    /\ \E found \in {EveryMatch(ps)} : GrownBy(before.parts, after.parts, found)
    /\ \E found \in {EveryMatch(ts)} : GrownBy(before.tables, after.tables, found)

\* C17: over every sequence of extract_entities and update_context calls on one
\* object that is not reset, the customers, parts and tables sets only grow:
\* what was in a set before a call is in it after the call, and every match the
\* call found has been added.
C17_EntitySetsOnlyGrow ==
    last_call.method \in {"extract_entities", "update_context"} =>
        \E cs \in {customer_patterns(last_call.arg)} :
        \E ps \in {part_patterns(last_call.arg)} :
        \E ts \in {table_patterns(last_call.arg)} :
            EntitiesGrownBy(last_call.before.entities, conversation_memory.entities,
                            cs, ps, ts)

\* a third call has added a customer to customers that two earlier calls had
\* filled, the parts and tables found earlier still there
C17_Witness ==
    /\ ncalls = 3
    /\ last_call.method = "extract_entities"
    /\ last_call.arg = "CustomerA and buyer Bob"
    /\ last_call.before.entities.customers = {"CustomerA", "CustomerB"}
    /\ conversation_memory.entities.customers = {"CustomerA", "CustomerB", "Bob"}
    /\ conversation_memory.entities.parts = {"PFF5225R", "sales"}

\* where a match stands in the text: the last place its text is found at
PlaceInText(s, m) ==
    LET hits == {i \in 1..Len(s) : MatchAt(s, i, m)}
    IN  IF hits = {} THEN 0 ELSE CHOOSE i \in hits : \A j \in hits : j <= i

\* last_customer, last_part after a call on text s that found the texts found: the
\* match that stands last in the text, or the value before the call when nothing
\* was found
MostRecentMatch(s, found, before, after) ==
    IF found = {} THEN after = before
    ELSE \E m \in found :
            /\ \A e \in found : PlaceInText(s, e) <= PlaceInText(s, m)
            /\ after = Some(m)

\* last_date_range, the matches being tuples of groups
MostRecentDate(s, found, before, after) ==
    IF found = {} THEN after = before
    ELSE \E m \in found :
            /\ \A e \in found : PlaceInText(s, e[1]) <= PlaceInText(s, m[1])
            /\ after = Some(StrOfMatch(m))

LastFieldsAreMostRecent(s, before, after, cs, ps, ds) ==
    /\ MostRecentMatch(s, EveryMatch(cs), before.last_customer, after.last_customer)
    /\ MostRecentMatch(s, EveryMatch(ps), before.last_part, after.last_part)
    /\ MostRecentDate(s, EveryMatch(ds), before.last_date_range, after.last_date_range)

\* C18: after extract_entities of a text with several matches of one kind
\* (customers, parts, date ranges; of one pattern or of several), last_customer,
\* last_part, last_date_range hold the match of the kind that stands last in the
\* text; a kind without a match leaves its field as it was.
C18_LastFieldIsLastInText ==
    last_call.method = "extract_entities" =>
        \E cs \in {customer_patterns(last_call.arg)} :
        \E ps \in {part_patterns(last_call.arg)} :
        \E ds \in {date_patterns(last_call.arg)} :
            LastFieldsAreMostRecent(last_call.arg, last_call.before.entities,
                                    conversation_memory.entities, cs, ps, ds)

\* the keyword buckets in the order of their priority
KeywordBuckets ==
    <<[type |-> "sales_analysis",
       words |-> {"revenue", "sales", "sold", "purchase", "buy"}],
      [type |-> "inventory_opportunity",
       words |-> {"inventory", "stock", "carry", "supplier"}],
      [type |-> "competitor_analysis",
       words |-> {"competitor", "market", "price", "margin"}],
      [type |-> "data_exploration",
       words |-> {"count", "how many", "records"}]>>

\* the buckets a lower-cased text has a keyword of
BucketsPresent(text) ==
    {k \in DOMAIN KeywordBuckets : \E w \in KeywordBuckets[k].words : Contains(text, w)}

\* the type of the first bucket present, general when there is none
FirstBucketType(present) ==
    IF present = {} THEN "general"
    ELSE KeywordBuckets[CHOOSE k \in present : \A j \in present : k <= j].type

\* C19: classify_query_type gives the type of the first keyword bucket, in the
\* order sales, inventory, competitor, exploration, that the text has a keyword
\* of, and general when it has none; the result is a function of the text alone,
\* whatever the object holds, and the call leaves the object as it is. "How much
\* revenue did we get from CustomerA" is sales_analysis, "How many records in
\* ebayWT" is data_exploration.
C19_ClassifyFirstMatchWins ==
    last_call.method = "classify_query_type" =>
        /\ last_call.result = FirstBucketType(BucketsPresent(Lower(last_call.arg)))
        /\ conversation_memory = last_call.before
        /\ last_call.arg = "How much revenue did we get from CustomerA"
                => last_call.result = "sales_analysis"
        /\ last_call.arg = "How many records in ebayWT"
                => last_call.result = "data_exploration"

\* a text with keywords of the first and of the last bucket is classified by the
\* first, on an object whose current context is of another type
C19_Witness ==
    /\ last_call.method = "classify_query_type"
    /\ last_call.arg = "How many sales records"
    /\ last_call.result = "sales_analysis"
    /\ last_call.before.current_context # None
    /\ last_call.before.current_context[1].query_type = "competitor_analysis"

\* a context that templates of its query type apply to
TypeApplies(ctx) ==
    \/ ctx.query_type = "sales_analysis"
            /\ (ctx.entities.customers # <<>> \/ ctx.entities.parts # <<>>)
    \/ ctx.query_type \in {"inventory_opportunity", "competitor_analysis"}
    \/ ctx.query_type = "data_exploration" /\ ctx.table_used # None

\* the entity the templates of a context are written about, "" when they are fixed
TemplateEntity(ctx) ==
    IF ctx.query_type = "sales_analysis"
    THEN (IF ctx.entities.customers # <<>> THEN ctx.entities.customers[1]
          ELSE ctx.entities.parts[1])
    ELSE IF ctx.query_type = "data_exploration" THEN ctx.table_used[1]
    ELSE ""

\* suggestions of a context: no general one before one of the type; four of the
\* type, about its entity, and no general one when the type applies; the general
\* ones alone when it does not
SuggestionsOf(ctx, suggestions) ==
    /\ \A i \in DOMAIN suggestions : \A j \in DOMAIN suggestions :
            (i < j /\ suggestions[i] \in Range(GeneralSuggestions))
                => suggestions[j] \in Range(GeneralSuggestions)
    /\ TypeApplies(ctx) =>
            /\ Len(suggestions) = MaxSuggestions
            /\ \A i \in DOMAIN suggestions :
                    /\ suggestions[i] \notin Range(GeneralSuggestions)
                    /\ Contains(suggestions[i], TemplateEntity(ctx))
    /\ ~TypeApplies(ctx) => suggestions = GeneralSuggestions

IsSelectStarFromTable(words) ==
    /\ Len(words) >= 4
    /\ words[1] = "SELECT" /\ words[2] = "*" /\ words[3] = "FROM"
    /\ "WHERE" \notin Range(words)
    /\ "JOIN" \notin Range(words)

\* the query without what follows the last ORDER BY, in whatever case, and it
OrderByRemoved(query) ==
    IF Contains(Upper(query), "ORDER BY")
    THEN Strip(Take(query, RFind(Upper(query), "ORDER BY") - 1))
    ELSE Strip(query)

\* the one statement the estimate of a query is to issue, in upper case
ExpectedCountQuery(query) ==
    IF IsSelectStarFromTable(Split(Upper(query)))
    THEN "SELECT COUNT(*) FROM " \o Split(Upper(query))[4]
    ELSE Upper("SELECT COUNT(*) FROM (" \o OrderByRemoved(query) \o ") AS count_subquery")

\* C21: _estimate_row_count(query): for a query SELECT * FROM <table> with no
\* WHERE and no JOIN it issues SELECT COUNT(*) FROM <table> and returns the count;
\* for another query it issues one COUNT(*) statement around the query cut at its
\* last ORDER BY (in any letter case); when the count statement fails, the error
\* returned or raised, the result is -1; nothing is raised.
C21_EstimateIssuesOneCount ==
    plugin_reply.op = "_estimate_row_count" =>
        /\ Len(db_log) = 1
        /\ Upper(db_log[1]) = ExpectedCountQuery(plugin_reply.arg)
        /\ \E answer \in SecureDatabase_query(db_log[1]) :
                plugin_reply.result =
                    (IF answer.type = "list" /\ answer.rows # <<>>
                     THEN answer.rows[1][1] ELSE -1)

\* a COUNT(*) statement
IsCountQuery(stmt) == StartsWith(Upper(stmt), "SELECT COUNT(*) FROM ")

\* the statements of the sample path: COUNT statements and then the one bounded
\* sample of the query, the query itself never
SampleOnly(query, log) ==
    /\ Len(log) >= 2
    /\ \A i \in 1..(Len(log) - 1) : IsCountQuery(log[i])
    /\ log[Len(log)] = "SELECT TOP 5 * FROM (" \o query \o ") AS sample_results"
    /\ query \notin Range(log)

\* the message of the sample path: the estimated total and the three next actions
StatesTotalAndActions(text, total) ==
    /\ StartsWith(text, "Found " \o Commas(total) \o " records.")
    /\ Contains(text, "Full dataset contains " \o Commas(total) \o " rows.")
    /\ Contains(text, "1) See more specific results with filters")
    /\ Contains(text, "2) Export all " \o Commas(total) \o " records to CSV")
    /\ Contains(text, "3) Show me the generated SQL query")

\* the statements of the direct path: the query itself is the last one, run once
RunDirect(query, log) ==
    /\ log # <<>>
    /\ log[Len(log)] = query
    /\ \A i \in 1..(Len(log) - 1) : log[i] # query

DisplayedRows(value) ==
    IF value.type = "list" THEN Len(value.rows)
    ELSE Cardinality({i \in 1..Len(value.text) : MatchAt(value.text, i, ",)")})

\* what the direct path returns when the database answered the query with answer
DirectResponse(answer, result) ==
    IF answer.type = "list" /\ Len(answer.rows) > 100
    THEN /\ result.type = "str"
         /\ StartsWith(result.text, "Query returned " \o Commas(Len(answer.rows))
                                    \o " rows (showing first 100)")
         /\ Contains(result.text, Str(List(SubSeq(answer.rows, 1, 100))))
         /\ DisplayedRows(result) = 100
         /\ Contains(result.text, "export full results to CSV")
    ELSE result = answer

\* C23: on the direct path the query itself is run exactly once; when it yields
\* more than max_display_rows rows the text returned has the first
\* max_display_rows rows only, the true number of rows and the offer of an export;
\* when it yields max_display_rows rows at most they are returned as they are.  On
\* no path does query show more than max_display_rows rows.
C23_DirectRunShowsAtMostMax ==
    plugin_reply.op = "query" =>
        /\ DisplayedRows(plugin_reply.result) <= 100
        /\ (estimated_rows # None /\ estimated_rows[1] <= 100) =>
                /\ RunDirect(plugin_reply.arg, db_log)
                /\ \E answer \in SecureDatabase_query(plugin_reply.arg) :
                        DirectResponse(answer, plugin_reply.result)

\* the estimate was unknown and the query yielded 101 rows: 100 are shown
C23_Witness ==
    /\ plugin_reply.op = "query"
    /\ estimated_rows = Some(-1)
    /\ db_log[Len(db_log)] = plugin_reply.arg
    /\ plugin_reply.result.type = "str"
    /\ StartsWith(plugin_reply.result.text, "Query returned 101 rows (showing first 100)")
    /\ DisplayedRows(plugin_reply.result) = 100

\* a step that is a call of export_query_to_csv or export_query_to_txt
ExportStep ==
    /\ calls' = calls + 1
    /\ plugin_reply'.op \in {"export_query_to_csv", "export_query_to_txt"}

\* the text reports the export of n rows to the file name
ReportsExport(text, n, name) ==
    /\ StartsWith(text, "Exported " \o Commas(n) \o " rows to ")
    /\ Contains(text, "File: " \o name \o " ")

\* the step wrote one file, with a header and a line for each row of rows, and
\* reports it
WroteAndReported(rows) ==
    \E name \in DOMAIN export_files' :
        /\ \A other \in DOMAIN export_files : other # name =>
                (other \in DOMAIN export_files' /\ export_files'[other] = export_files[other])
        /\ DOMAIN export_files' \subseteq DOMAIN export_files \cup {name}
        /\ export_files'[name].header # <<>>
        /\ export_files'[name].lines =
                [i \in 1..Len(rows) |-> [k \in 1..Len(rows[i]) |-> ToString(rows[i][k])]]
        /\ ReportsExport(plugin_reply'.result.text, Len(rows), name)

\* what an export step does when the database answered the query with answer
ExportOutcome(answer) ==
    IF answer.type # "list"
    THEN /\ export_files' = export_files
         /\ \/ StartsWith(plugin_reply'.result.text, "Error executing query for export: ")
            \/ StartsWith(plugin_reply'.result.text, "Export failed: ")
    ELSE IF answer.rows = <<>>
    THEN /\ export_files' = export_files
         /\ plugin_reply'.result.text =
                "Query executed successfully but returned no data to export."
    ELSE \/ WroteAndReported(answer.rows)
         \/ /\ export_files' = export_files
            /\ StartsWith(plugin_reply'.result.text, "Export failed: ")

\* C24: _export_to_file, called as export_query_to_csv or export_query_to_txt,
\* raises nothing: when the query fails it returns an error text and writes no
\* file; when the query yields no row it returns the no-data text and writes no
\* file; it reports the export of N rows only when a file with a header and those
\* N rows has been written.
C24_ExportReportsWhatItWrote ==
    [][ExportStep =>
            /\ plugin_reply'.result.type = "str"
            /\ db_log' = <<plugin_reply'.arg>>
            /\ \E answer \in SecureDatabase_query(plugin_reply'.arg) : ExportOutcome(answer)
            /\ StartsWith(plugin_reply'.result.text, "Exported ")
                    => \E n \in RowCounts \ {0} : WroteAndReported(Rows(n))]_vars

\* an export of 5 rows is reported and its file has the header and 5 lines
C24_Witness ==
    /\ plugin_reply.op = "export_query_to_csv"
    /\ StartsWith(plugin_reply.result.text, "Exported 5 rows to CSV format.")
    /\ \E name \in DOMAIN export_files :
            /\ export_files[name].format = "csv"
            /\ export_files[name].header = <<"Column_1">>
            /\ Len(export_files[name].lines) = 5

\* a SELECT query, or a WITH ... SELECT query
IsSelectQuery(words) ==
    /\ words # <<>>
    /\ \/ words[1] = "SELECT"
       \/ words[1] = "WITH" /\ "SELECT" \in Range(words)
    /\ Range(words) \cap {"INSERT", "UPDATE", "DELETE", "DROP", "TRUNCATE", "ALTER",
                          "EXEC", "MERGE"} = {}

\* what SecureDatabase.query returned came from cursor.execute: the statement was
\* sent to the database
WasExecuted(result) ==
    \/ result.type = "list"
    \/ result.type = "str" /\ StartsWith(result.text, "Database Error: ")

\* C25: SecureDatabase.query is read-only: a statement is sent to the database
\* only when it is a SELECT (or WITH ... SELECT) query; any other statement,
\* INSERT, UPDATE, DELETE, DROP, TRUNCATE, ALTER, EXEC, MERGE among them, is
\* turned away with an error text and not executed.
C25_OnlySelectIsExecuted ==
    (plugin_reply.op = "SecureDatabase.query"
        /\ ~IsSelectQuery(Split(Upper(plugin_reply.arg)))) =>
            /\ ~WasExecuted(plugin_reply.result)
            /\ plugin_reply.result.type = "str" =>
                    StartsWith(plugin_reply.result.text, "Error: ")

\* the suggestion a text selects when it is a follow-up, None when it is none or
\* selects nothing
ResolvedSelection(self, text) ==
    IF is_follow_up_query(text) THEN handle_follow_up_selection(self, text) ELSE None

\* the selected suggestion followed by a note with the query and the result
\* summary of the current context
SuggestionWithNote(ctx, suggestion, enhanced) ==
    /\ StartsWith(enhanced, suggestion)
    /\ Len(enhanced) > Len(suggestion)
    /\ Contains(Drop(enhanced, Len(suggestion)), "'" \o ctx.query_text \o "'")
    /\ Contains(Drop(enhanced, Len(suggestion)), ctx.result_summary)

\* C26: enhance_query_with_context(text) begins from resolve_pronouns(text); it
\* puts a suggestion in the place of the text and appends the note about the
\* previous query and its result summary only when the text is a follow-up and
\* selects a suggestion; in every other case (no follow-up, nothing selected, no
\* current context) the result is resolve_pronouns(text) and nothing more.  The
\* object is left as it was.
C26_EnhanceOnlyResolvedFollowUps ==
    last_call.method = "enhance_query_with_context" =>
        /\ conversation_memory = last_call.before
        /\ \E selected \in {ResolvedSelection(last_call.before, last_call.arg)} :
                IF selected # None
                THEN SuggestionWithNote(last_call.before.current_context[1],
                                        selected[1], last_call.result)
                ELSE last_call.result = resolve_pronouns(last_call.before, last_call.arg)

\* a step in which ask_question makes the session session_id and hands the chat
\* history to the chat completion service for the first turn of it
BeginsSession(session_id) ==
    /\ session_id \notin DOMAIN conversation_sessions
    /\ session_id \in DOMAIN conversation_sessions'
    /\ Len(requests') = Len(requests) + 1
    /\ requests'[Len(requests')].session_id = session_id

\* C27: the chat history handed to the chat completion service for a turn of a
\* session holds messages of turns of that session only, in whatever order the
\* turns of the sessions are handled.  The messages carry no session id, so the
\* formula speaks of the turns whose session has no earlier message: the first
\* turn of a new session is handed its own user message and nothing else.
C27_HistoryOfTheSessionOnly ==
    [][\A session_id \in UUIDs :
          BeginsSession(session_id) =>
              chat_history' = <<UserMessage(requests'[Len(requests')].enhanced_question)>>]_vars

\* a step in which the first call of Kernel.message of the process, made on an
\* empty chat history, returns a response
FirstMessageReturns ==
    /\ asked = 1
    /\ Len(requests) = 1
    /\ requests' = <<>>
    /\ reply'.op = "ask"
    /\ reply'.status = 200

\* C28: a call of Kernel.message that returns a response has added one user
\* message and one assistant message to the chat history, however many of its
\* attempts (3 at most) failed and were made again before.  The formula takes the
\* first call of the process, whose messages are the whole chat history.
C28_OneUserOneAssistantMessage ==
    [][FirstMessageReturns =>
            chat_history' = <<UserMessage(requests[1].enhanced_question),
                              AssistantMessage(reply'.answer)>>]_vars

\* C29: every export that succeeds writes a file of its own: the path of a later
\* export is the path of no earlier one, also when both are made within one
\* second of the clock or for different sessions, so that no export replaces the
\* file of an earlier one.
C29_ExportWritesItsOwnFile ==
    [][(ExportStep /\ StartsWith(plugin_reply'.result.text, "Exported ")) =>
            /\ \E name \in DOMAIN export_files' \ DOMAIN export_files :
                    Contains(plugin_reply'.result.text, "File: " \o name \o " ")
            /\ \A name \in DOMAIN export_files :
                    /\ name \in DOMAIN export_files'
                    /\ export_files'[name] = export_files[name]]_vars

\* a step in which ask_question takes up the request "option N" for the session
\* whose response, with suggestions, was the last the server sent
OptionTurnBegins(N) ==
    /\ Len(requests') = Len(requests) + 1
    /\ Strip(Lower(requests'[Len(requests')].question)) = "option " \o ToString(N)
    /\ reply.op = "ask"
    /\ reply.status = 200
    /\ reply.session_id # None
    /\ requests'[Len(requests')].request_session = reply.session_id
    /\ reply.suggestions # None
    /\ N <= Len(reply.suggestions[1])

====
